---- MODULE Spec2Model ----
(***************************************************************************)
(* A model of the triangle-mesh resource of the renderer                   *)
(* (src/trianglemesh.{h,cpp}, src/utilities.h): the CPU arrays of a mesh,  *)
(* its GPU handle slots, the GL objects behind them, and the operations    *)
(* that build, release, move and draw them.                                *)
(* Functions of the program on values (the heightmap, the OBJ directive   *)
(* loop, the sphere mapping) are applied to inputs drawn beforehand, and   *)
(* the camera angles, the frame and the shader list of the view            *)
(* (src/openglview.cpp) are modelled as well.                              *)
(*                                                                         *)
(* Conventions.                                                            *)
(*  - A CPU array is its length.  A GL buffer is [size, cur]: the bytes it *)
(*    stores, and whether these are still the elements of the array(s) it  *)
(*    was filled from; a write to an array clears cur of the buffers the   *)
(*    mesh holds that were filled from it.                                 *)
(*  - Coordinates are integers, in twentieths of a world unit, so that the *)
(*    terrain step (0.1) and every midpoint the model forms are exact.     *)
(*  - glGen* hands out the smallest name that is not in use, per name      *)
(*    space (vertex arrays, buffers); a deleted name is free again.  Name  *)
(*    0 is the empty sentinel.                                             *)
(***************************************************************************)
EXTENDS Integers, Sequences, FiniteSets, TLC

(* ------------------------------ bounds -------------------------------- *)
\* Operations performed in one run of each specification.
MaxOps == 4
MaxBuildOps == 3
MaxMoveOps == 8
MaxDrawOps == 6
MaxCullOps == 4
MaxCameraOps == 4
MaxLoadOps == 4
MaxBoxOps == 3
MaxPaintOps == 5
MaxAssignOps == 5
MaxShaderOps == 4
\* The largest side of a heightmap and the most passes of its fault loop.
MaxSide == 2
MaxIterations == 1

(* --------------------------- program constants ------------------------ *)
\* FLT_MAX, the bounding-box sentinel: larger than any coordinate reached.
FLT_MAX == 1000000
\* generateSphere's subdivision counts.
longdiv == 200
latdiv == 100

\* the places that can hold a TriangleMesh
MeshIds == {1, 2}

ColoringType == {"STATIC_COLOR", "COLOR_ARRAY", "TEXTURE", "BUMP_MAPPING"}

\* The autoMoved<GLuint> members that name vertex-array objects and buffers.
VAOSlots == {"VAO", "VAObb", "VAOn"}
VBOSlots == {"VBOv", "VBOn", "VBOf", "VBOc", "VBOt", "VBOtan", "VBOvbb", "VBOfbb", "VBOvn"}
BufferSlots == VAOSlots \cup VBOSlots
\* The autoMoved<GLuint> members that name textures (set by the caller).
TextureSlots == {"textureID", "normalMapID", "displacementMapID"}
HandleSlots == BufferSlots \cup TextureSlots

(* ------------------------------- vectors ------------------------------ *)
Axes == 1..3
Vec3(x, y, z) == <<x, y, z>>
VZero == <<0, 0, 0>>
\* float addition: a small addend is absorbed by +-FLT_MAX.
FAdd(x, t) == IF x = FLT_MAX \/ x = -FLT_MAX THEN x ELSE x + t
VAdd(a, b) == [i \in Axes |-> FAdd(a[i], b[i])]
VSub(a, b) == [i \in Axes |-> a[i] - b[i]]
VScale(k, a) == [i \in Axes |-> IF a[i] = FLT_MAX \/ a[i] = -FLT_MAX THEN a[i] * (IF k < 0 THEN -1 ELSE 1) ELSE k * a[i]]
\* 0.5f*a + 0.5f*b
VHalfSum(a, b) == [i \in Axes |-> (a[i] + b[i]) \div 2]
Max2(a, b) == IF a >= b THEN a ELSE b
Min2(a, b) == IF a <= b THEN a ELSE b
\* world units to model units
W(x) == 20 * x

(* ------------------------------ CPU arrays ---------------------------- *)
ArrayFields == {"vertices", "normals", "triangles", "colors", "texCoords", "tangents"}

BBox(lo, hi, mid, size) == [min |-> lo, max |-> hi, mid |-> mid, size |-> size]
SentinelBB == BBox(Vec3(FLT_MAX, FLT_MAX, FLT_MAX), Vec3(-FLT_MAX, -FLT_MAX, -FLT_MAX), VZero, VZero)

VARIABLES
    meshes,     \* MeshIds -> the TriangleMesh stored there (alive or not)
    vaos,       \* the names of the live GL vertex-array objects
    bufs,       \* the live GL buffer objects: name -> [size, cur]
    badDelete,  \* a glDelete* call has named an object that is not live
    op,         \* the operation performed last, with its inputs
    state,      \* the RenderState handed to draw
    drawn,      \* what the last draw returned
    glLog,      \* the GL calls of the last draw, in order
    steps,      \* the number of operations performed
    calc,       \* a function of the program applied to inputs: [fn, args, done, out]
    camera,     \* the camera angles of the view, in hundredths of a degree
    shaders     \* the shader programs of the view and the indices it announced

vars == <<meshes, vaos, bufs, badDelete, op, state, drawn, glLog, steps, calc, camera, shaders>>
gpu == <<vaos, bufs, badDelete>>
\* what no operation of a mesh touches
aside == <<calc, camera, shaders>>

(* ------------------------------ GL objects ---------------------------- *)
\* the name glGen* returns: the smallest one not in use
FreshName(used) == CHOOSE n \in 1..(Cardinality(used) + 1) :
                      n \notin used /\ \A k \in 1..(n - 1) : k \in used

\* A member function runs on a context: the mesh (stored at place self) and
\* the GL state it reads and writes; ret is a helper's return value, and
\* built tells that createAllVBOs got past its check of f.
Ctx(self, m, va, bu, bad) == [self |-> self, m |-> m, vaos |-> va, bufs |-> bu, bad |-> bad,
                             ret |-> 0, built |-> FALSE]

\* sizeof of one element of the array uploaded into each buffer slot
SizeOf(slot) == CASE slot = "VBOt" -> 8
                  [] slot \in {"VBOvbb", "VBOfbb"} -> 4
                  [] OTHER -> 12

\* utilities.cpp: 8 box corners (24 floats), 12 box edges (24 indices)
BoxVertices == 24
BoxLineIndices == 24

\* the buffer slots filled from each array (VBOvn: the normal lines)
Feeds(field) == CASE field = "vertices" -> {"VBOv", "VBOvn"}
                  [] field = "normals" -> {"VBOn", "VBOvn"}
                  [] field = "triangles" -> {"VBOf"}
                  [] field = "colors" -> {"VBOc"}
                  [] field = "texCoords" -> {"VBOt"}
                  [] field = "tangents" -> {"VBOtan"}

\* The array `field' is written and has len elements afterwards (an empty
\* array that stays empty is unchanged).
Write(c, field, len) ==
    IF c.m[field] = 0 /\ len = 0 THEN c
    ELSE [c EXCEPT !.m = [@ EXCEPT ![field] = len],
                   !.bufs = [b \in DOMAIN @ |->
                               IF b \in {c.m[s] : s \in Feeds(field)}
                               THEN [@[b] EXCEPT !.cur = FALSE] ELSE @[b]]]

\* f->glGenVertexArrays(1, &slot.val)
glGenVertexArrays(c, slot) ==
    LET id == FreshName(c.vaos)
    IN [c EXCEPT !.vaos = @ \cup {id}, !.m = [@ EXCEPT ![slot] = id]]

\* f->glDeleteVertexArrays(1, &id)
glDeleteVertexArrays(c, id) ==
    [c EXCEPT !.vaos = @ \ {id}, !.bad = @ \/ id \notin c.vaos]

\* f->glDeleteBuffers(1, &id)
glDeleteBuffers(c, id) ==
    [c EXCEPT !.bufs = [k \in DOMAIN c.bufs \ {id} |-> c.bufs[k]],
              !.bad = @ \/ id \notin DOMAIN c.bufs]

\* createVBO without the release of a buffer whose size check failed
createVBOKeepsBadBuffer(c, fails, slot, count) ==
    LET id == FreshName(DOMAIN c.bufs)
        dataSize == count * SizeOf(slot)
        bufferSize == IF slot \in fails THEN 0 ELSE dataSize
    IN [c EXCEPT !.bufs = (id :> [size |-> bufferSize, cur |-> TRUE]) @@ c.bufs, !.ret = id]

\* TriangleMesh::createVBO.  The upload lands dataSize bytes, or none when it
\* fails (slot \in fails): bufferSize is what glGetBufferParameteriv reports.
createVBO(c, fails, slot, count) ==
    LET id == FreshName(DOMAIN c.bufs)
        dataSize == count * SizeOf(slot)
        bufferSize == IF slot \in fails THEN 0 ELSE dataSize
        c1 == [c EXCEPT !.bufs = (id :> [size |-> bufferSize, cur |-> TRUE]) @@ c.bufs]
    IN IF dataSize # bufferSize
       THEN [glDeleteBuffers(c1, id) EXCEPT !.ret = 0]
       ELSE [c1 EXCEPT !.ret = id]

\* slot.val = createVBO(...)
StoreVBO(c, fails, slot, count) ==
    LET r == createVBO(c, fails, slot, count)
    IN [r EXCEPT !.m = [@ EXCEPT ![slot] = r.ret]]

\* TriangleMesh::createBBVAO
createBBVAO(c, fails) ==
    LET c1 == glGenVertexArrays(c, "VAObb")
        c2 == StoreVBO(c1, fails, "VBOvbb", BoxVertices)
    IN StoreVBO(c2, fails, "VBOfbb", BoxLineIndices)

\* TriangleMesh::createNormalVAO
createNormalVAO(c, fails) ==
    IF c.m.vertices # c.m.normals THEN c
    ELSE LET c1 == glGenVertexArrays(c, "VAOn")
         IN StoreVBO(c1, fails, "VBOvn", 2 * c.m.vertices)

\* TriangleMesh::createAllVBOs
createAllVBOs(c, fails) ==
    IF ~c.m.f THEN c
    ELSE
    LET m  == c.m
        c0 == glGenVertexArrays([c EXCEPT !.built = TRUE], "VAO")
        c1 == StoreVBO(c0, fails, "VBOf", m.triangles)
        c2 == StoreVBO(c1, fails, "VBOv", m.vertices)
        c3 == StoreVBO(c2, fails, "VBOn", m.normals)
        c4 == IF m.colors = m.vertices THEN StoreVBO(c3, fails, "VBOc", m.colors) ELSE c3
        c5 == IF m.texCoords = m.vertices THEN StoreVBO(c4, fails, "VBOt", m.texCoords) ELSE c4
        c6 == IF m.tangents = m.vertices THEN StoreVBO(c5, fails, "VBOtan", m.tangents) ELSE c5
    IN createNormalVAO(createBBVAO(c6, fails), fails)

\* the order of the glDelete* calls of cleanupVBO
CleanupOrder == <<"VAO", "VBOv", "VBOn", "VBOf", "VBOc", "VBOt", "VBOtan",
                  "VAObb", "VBOvbb", "VBOfbb", "VAOn", "VBOvn">>

RECURSIVE DeleteSlots(_, _)
DeleteSlots(c, i) ==
    IF i > Len(CleanupOrder) THEN c
    ELSE LET s == CleanupOrder[i]
             id == c.m[s]
         IN DeleteSlots(IF id = 0 THEN c
                        ELSE IF s \in VAOSlots THEN glDeleteVertexArrays(c, id)
                        ELSE glDeleteBuffers(c, id), i + 1)

\* TriangleMesh::cleanupVBO(f)
cleanupVBOWith(c) ==
    LET d == DeleteSlots(c, 1)
    IN [d EXCEPT !.m = [@ EXCEPT !.VBOv = 0, !.VBOn = 0, !.VBOf = 0, !.VBOc = 0, !.VBOt = 0,
                                 !.VBOtan = 0, !.VAO = 0, !.VAObb = 0, !.VBOfbb = 0,
                                 !.VBOvbb = 0, !.VAOn = 0, !.VBOvn = 0]]

\* TriangleMesh::cleanupVBO()
cleanupVBO(c) == IF ~c.m.f THEN c ELSE cleanupVBOWith(c)

\* TriangleMesh::clear
clear(c) ==
    LET c1 == Write(Write(Write(Write(Write(c, "vertices", 0), "triangles", 0),
                                "normals", 0), "colors", 0), "texCoords", 0)
    IN cleanupVBO([c1 EXCEPT !.m = [@ EXCEPT !.bb = SentinelBB,
                                             !.coloringType = "STATIC_COLOR",
                                             !.withBB = FALSE, !.withNormals = FALSE,
                                             !.textureID = 0]])

\* The members of a TriangleMesh before its constructor body runs.
RawMesh(fptr) ==
    [alive |-> TRUE, f |-> fptr,
     vertices |-> 0, normals |-> 0, triangles |-> 0,
     colors |-> 0, texCoords |-> 0, tangents |-> 0,
     coloringType |-> "STATIC_COLOR", withBB |-> FALSE, withNormals |-> FALSE,
     bb |-> BBox(VZero, VZero, VZero, VZero),
     VAO |-> 0, VBOv |-> 0, VBOn |-> 0, VBOf |-> 0, VBOc |-> 0, VBOt |-> 0, VBOtan |-> 0,
     VAObb |-> 0, VBOvbb |-> 0, VBOfbb |-> 0, VAOn |-> 0, VBOvn |-> 0,
     textureID |-> 0, normalMapID |-> 0, displacementMapID |-> 0]

\* A place that holds no mesh object.
NoMesh == [RawMesh(FALSE) EXCEPT !.alive = FALSE]

(* ------------------------------ OBJ files ----------------------------- *)
\* A file is "missing" (cannot be opened) or a sequence of directives.
V(x, y, z) == [k |-> "v", p |-> Vec3(W(x), W(y), W(z)), idx |-> <<>>]
VN == [k |-> "vn", p |-> VZero, idx |-> <<>>]
\* a vn line that gives the normal (x, y, z)
VNOf(x, y, z) == [k |-> "vn", p |-> Vec3(W(x), W(y), W(z)), idx |-> <<>>]
F(idx) == [k |-> "f", p |-> VZero, idx |-> idx]
\* a line with another leading token
Other(token) == [k |-> token, p |-> VZero, idx |-> <<>>]
FileNames == {"missing", "tri", "quad"}
FileText(name) ==
    CASE name = "tri" -> <<V(0, 0, 0), V(2, 0, 0), V(0, 2, 0), F(<<1, 2, 3>>)>>
      [] name = "quad" -> <<V(-1, -1, 0), VN, V(1, -1, 0), VN, V(1, 1, 0), VN, V(-1, 1, 0), VN,
                            F(<<1, 2, 3>>), F(<<1, 2, 3, 4, 1>>), F(<<-4, -2, -1>>)>>
      [] name = "mixed" -> <<Other("#"), V(0, 0, 0), V(1, 0, 0), F(<<1, 2>>), V(0, 1, 0),
                             Other("vt"), F(<<3, 2, 1>>), F(<<1, 2, 3, 1>>), V(0, 0, 1),
                             F(<<-1, -2, -3>>), F(<<4, 1, 2>>)>>
      [] name = "partial" -> <<V(0, 0, 0), VNOf(1, 0, 0), V(2, 0, 0), V(0, 2, 0), F(<<1, 2, 3>>)>>
      [] name = "early" -> <<V(0, 0, 0), V(1, 0, 0), V(0, 1, 0), F(<<-1, -2, -3>>),
                             V(0, 0, 1), V(1, 1, 1), F(<<-1, -2, -5>>), F(<<5, 1, -4>>)>>
      [] name = "zero" -> <<V(0, 0, 0), V(1, 0, 0), V(0, 1, 0), F(<<0, 1, 2>>)>>
      [] name = "beyond" -> <<V(0, 0, 0), V(1, 0, 0), V(0, 1, 0), F(<<1, 2, 4>>)>>
      [] name = "before" -> <<V(0, 0, 0), V(1, 0, 0), V(0, 1, 0), F(<<-4, -1, -2>>)>>
      [] OTHER -> <<>>

\* a directive loop that gives up at the first face that is not a triangle
RECURSIVE ReadOBJStopsAtBadFace(_, _, _)
ReadOBJStopsAtBadFace(text, i, acc) ==
    IF i > Len(text) THEN acc
    ELSE LET d == text[i]
         IN IF d.k = "f" /\ Len(d.idx) # 3 THEN acc
            ELSE ReadOBJStopsAtBadFace(text, i + 1,
                   CASE d.k = "v" -> [acc EXCEPT !.nv = @ + 1,
                                                 !.min = [a \in Axes |-> Min2(d.p[a], @[a])],
                                                 !.max = [a \in Axes |-> Max2(d.p[a], @[a])]]
                     [] d.k = "vn" -> [acc EXCEPT !.nvn = @ + 1]
                     [] d.k = "f" -> [acc EXCEPT !.nf = @ + 1]
                     [] OTHER -> acc)

\* The directive loop of loadOBJ, on the array lengths and the bounding box.
RECURSIVE ReadOBJ(_, _, _)
ReadOBJ(text, i, acc) ==
    IF i > Len(text) THEN acc
    ELSE LET d == text[i]
         IN ReadOBJ(text, i + 1,
              CASE d.k = "v" ->
                     [acc EXCEPT !.nv = @ + 1,
                                 !.min = [a \in Axes |-> Min2(d.p[a], @[a])],
                                 !.max = [a \in Axes |-> Max2(d.p[a], @[a])]]
                [] d.k = "vn" -> [acc EXCEPT !.nvn = @ + 1]
                [] d.k = "f" -> IF Len(d.idx) = 3 THEN [acc EXCEPT !.nf = @ + 1] ELSE acc
                [] OTHER -> acc)

(* --------------------------- mesh operations -------------------------- *)
\* TriangleMesh::calculateNormalsByArea
calculateNormalsByArea(c) == Write(c, "normals", c.m.vertices)

\* TriangleMesh::calculateTexCoordsSphereMapping
calculateTexCoordsSphereMapping(c) == Write(c, "texCoords", c.m.vertices)

\* TriangleMesh::loadOBJ(filename, createVBOs)
loadOBJ(c, file, createVBOs, fails) ==
    LET c1 == clear(c)
    IN IF file = "missing" THEN c1
       ELSE
       LET r  == ReadOBJ(FileText(file), 1,
                         [nv |-> 0, nvn |-> 0, nf |-> 0, min |-> c1.m.bb.min, max |-> c1.m.bb.max])
           c2 == Write(Write(Write(c1, "vertices", r.nv), "triangles", r.nf), "normals", r.nvn)
           c3 == [c2 EXCEPT !.m = [@ EXCEPT !.bb = BBox(r.min, r.max, VHalfSum(r.min, r.max),
                                                        VSub(r.max, r.min))]]
           c4 == IF c3.m.normals # c3.m.vertices THEN calculateNormalsByArea(c3) ELSE c3
           c5 == calculateTexCoordsSphereMapping(c4)
       IN IF createVBOs THEN createAllVBOs(c5, fails) ELSE c5

\* TriangleMesh::translateToCenter
translateToCenter(c, newBBmid, createVBOs, fails) ==
    LET bb    == c.m.bb
        trans == VSub(newBBmid, bb.mid)
        c1    == IF trans = VZero THEN c ELSE Write(c, "vertices", c.m.vertices)
        c2    == [c1 EXCEPT !.m = [@ EXCEPT !.bb = BBox(VAdd(bb.min, trans), VAdd(bb.max, trans),
                                                        VAdd(bb.mid, trans), bb.size)]]
    IN IF createVBOs THEN createAllVBOs(cleanupVBO(c2), fails) ELSE c2

\* the largest bounding-box side, as scaleToLength computes it
BBLength(m) == Max2(Max2(m.bb.size[1], m.bb.size[2]), m.bb.size[3])

\* TriangleMesh::scaleToLength, for newLength = scale * length
scaleToLength(c, scale, createVBOs, fails) ==
    LET bb == c.m.bb
        c1 == IF scale = 1 THEN c ELSE Write(c, "vertices", c.m.vertices)
        c2 == [c1 EXCEPT !.m = [@ EXCEPT !.bb = BBox(VScale(scale, bb.min), VScale(scale, bb.max),
                                                     VScale(scale, bb.mid), VScale(scale, bb.size))]]
    IN IF createVBOs THEN createAllVBOs(cleanupVBO(c2), fails) ELSE c2

\* TriangleMesh::loadOBJ(filename, BBmid, BBlength), for BBlength = scale * length
loadOBJScaled(c, file, BBmid, scale, fails) ==
    scaleToLength(translateToCenter(loadOBJ(c, file, FALSE, fails), BBmid, FALSE, fails),
                  scale, TRUE, fails)

\* TriangleMesh::flipNormals
flipNormals(c, createVBOs) ==
    LET c1 == Write(c, "normals", c.m.normals)
        id == c1.m.VBOn
    IN IF createVBOs /\ id # 0 /\ c1.m.f /\ id \in DOMAIN c1.bufs
       THEN [c1 EXCEPT !.bufs = [@ EXCEPT ![id] = [@ EXCEPT !.cur = TRUE]]]
       ELSE c1

\* TriangleMesh::generateSphere
generateSphere(c, fptr, fails) ==
    LET nv == (latdiv + 1) * (longdiv + 1)
        nt == 2 * latdiv * longdiv
        c1 == [c EXCEPT !.m = [@ EXCEPT !.f = fptr]]
        c2 == Write(Write(Write(Write(c1, "vertices", c1.m.vertices + nv),
                                "normals", c1.m.normals + nv),
                          "texCoords", c1.m.texCoords + nv),
                    "tangents", c1.m.tangents + nv)
        c3 == Write(c2, "triangles", c2.m.triangles + nt)
        c4 == [c3 EXCEPT !.m = [@ EXCEPT !.bb = BBox(Vec3(W(-1), W(-1), W(-1)),
                                                     Vec3(W(1), W(1), W(1)),
                                                     VZero, Vec3(W(2), W(2), W(2)))]]
    IN createAllVBOs(c4, fails)

\* TriangleMesh::calculateBB for the l x w grid of generateTerrain whose
\* heights span lo..hi
calculateBB(c, l, w, lo, hi) ==
    LET bmin == Vec3(0, lo, 0)
        bmax == Vec3(W(l - 1), hi, W(w - 1))
    IN [c EXCEPT !.m = [@ EXCEPT !.bb = BBox(bmin, bmax, VHalfSum(bmin, bmax), VSub(bmax, bmin))]]

\* TriangleMesh::generateTerrain, on a heightmap whose heights span lo..hi
generateTerrain(c, l, w, lo, hi, fails) ==
    LET c1 == Write(Write(Write(c, "vertices", l * w), "colors", l * w),
                    "triangles", 2 * (l - 1) * (w - 1))
        c2 == calculateBB(calculateNormalsByArea(c1), l, w, lo, hi)
    IN createAllVBOs(c2, fails)

(* ------------------------- construction and moves --------------------- *)
\* TriangleMesh::TriangleMesh(f)
construct(c, fptr) == clear([c EXCEPT !.m = RawMesh(fptr)])

\* a move constructor that leaves the value in the source as well
autoMovedKeepsSource(src) == [dst |-> src, src |-> src]

\* autoMoved(autoMoved&& other): val(other.val), other.val = T()
autoMovedMoveCtor(src) == [dst |-> src, src |-> 0]

\* a move assignment that overwrites the target and empties the source
autoMovedAssignClears(dst, src) == [dst |-> src, src |-> 0]

\* autoMoved::operator=(autoMoved&& other): swap(other.val, val)
autoMovedMoveAssign(dst, src) == [dst |-> src, src |-> dst]

\* std::vector's move constructor and move assignment: the target takes the
\* elements and the source is left empty.
vectorMove(src) == [dst |-> src, src |-> 0]

\* a member-by-member copy: what the deleted copy constructor would do
copyConstruct(src) == [dst |-> src, src |-> src]

\* TriangleMesh(TriangleMesh&&) = default: member by member; the plain
\* members (flags, bounding box, f) are copied.
moveConstruct(src) ==
    [dst |-> [k \in DOMAIN src |->
                 IF k \in HandleSlots THEN autoMovedMoveCtor(src[k]).dst
                 ELSE IF k \in ArrayFields THEN vectorMove(src[k]).dst
                 ELSE src[k]],
     src |-> [k \in DOMAIN src |->
                 IF k \in HandleSlots THEN autoMovedMoveCtor(src[k]).src
                 ELSE IF k \in ArrayFields THEN vectorMove(src[k]).src
                 ELSE src[k]]]

\* TriangleMesh& operator=(TriangleMesh&&) = default
moveAssign(dst, src) ==
    [dst |-> [k \in DOMAIN src |->
                 IF k \in HandleSlots THEN autoMovedMoveAssign(dst[k], src[k]).dst
                 ELSE IF k \in ArrayFields THEN vectorMove(src[k]).dst
                 ELSE src[k]],
     src |-> [k \in DOMAIN src |->
                 IF k \in HandleSlots THEN autoMovedMoveAssign(dst[k], src[k]).src
                 ELSE IF k \in ArrayFields THEN vectorMove(src[k]).src
                 ELSE src[k]]]

(* -------------------------------- inputs ------------------------------ *)
\* the uploads that fail within one build: none, any one, all
FailSets == {{}, VBOSlots} \cup {{s} : s \in VBOSlots}
\* bounding-box centres asked of translateToCenter
Mids == {VZero, Vec3(W(1), 0, 0)}
\* newLength / length asked of scaleToLength
ScaleFactors == {1, 2}
\* terrain grid sides
GridSides == {1, 2}
\* the terrain step: double displacement = 0.1
displacement == 2
\* Lowest and highest height of a heightmap: all 0 without iterations; after
\* one iteration of the step displacement every cell is one step up or one
\* step down.
HeightSpans(l, w, iterations) ==
    IF iterations = 0 THEN {<<0, 0>>}
    ELSE {<<-displacement, -displacement>>, <<displacement, displacement>>}
         \cup (IF l * w > 1 THEN {<<-displacement, displacement>>} ELSE {})

(* -------------------------------- actions ----------------------------- *)
MeshCtx(i) == Ctx(i, meshes[i], vaos, bufs, badDelete)
Op(name, i, j, fails) == [name |-> name, m |-> i, s |-> j, fails |-> fails, built |-> FALSE]

\* the names some mesh holds in a slot
HeldBuffers(ms) == {ms[i][s] : i \in MeshIds, s \in VBOSlots} \ {0}
HeldVAOs(ms) == {ms[i][s] : i \in MeshIds, s \in VAOSlots} \ {0}

\* a member function of mesh c.self has run and left c
Ran(c, o) ==
    /\ meshes' = [meshes EXCEPT ![c.self] = c.m]
    /\ vaos' = c.vaos
    /\ bufs' = c.bufs
    /\ badDelete' = c.bad
    /\ op' = [o EXCEPT !.built = c.built]
    /\ drawn' = 0
    /\ glLog' = <<>>
    /\ steps' = steps + 1
    /\ UNCHANGED <<state, aside>>

\* the failure patterns to try: only a call that builds reads them
Fails(failSets, willBuild) == IF willBuild THEN failSets ELSE {{}}

Construct(i) ==
    /\ ~meshes[i].alive
    /\ \E fptr \in BOOLEAN : Ran(construct(MeshCtx(i), fptr), Op("construct", i, 0, {}))

Destroy(i) ==
    /\ meshes[i].alive
    /\ Ran([clear(MeshCtx(i)) EXCEPT !.m = NoMesh], Op("destroy", i, 0, {}))

MoveConstruct(i, j) ==
    /\ i # j /\ ~meshes[i].alive /\ meshes[j].alive
    /\ LET r == moveConstruct(meshes[j])
       IN /\ meshes' = [meshes EXCEPT ![i] = r.dst, ![j] = r.src]
          /\ op' = Op("moveConstruct", i, j, {})
          /\ drawn' = 0 /\ glLog' = <<>> /\ steps' = steps + 1
          /\ UNCHANGED <<gpu, state, aside>>

\* The buffers mesh m holds were filled from arrays that are gone, and m's
\* arrays are empty: only an empty buffer still stores what m's arrays hold.
Outdated(bu, m) ==
    [b \in DOMAIN bu |-> IF b \in {m[s] : s \in VBOSlots}
                         THEN [bu[b] EXCEPT !.cur = @ /\ bu[b].size = 0] ELSE bu[b]]

MoveAssign(i, j) ==
    /\ i # j /\ meshes[i].alive /\ meshes[j].alive
    /\ LET r == moveAssign(meshes[i], meshes[j])
       IN /\ meshes' = [meshes EXCEPT ![i] = r.dst, ![j] = r.src]
          /\ op' = Op("moveAssign", i, j, {})
          /\ bufs' = Outdated(bufs, r.src)
          /\ drawn' = 0 /\ glLog' = <<>> /\ steps' = steps + 1
          /\ UNCHANGED <<vaos, badDelete, state, aside>>

\* "dst = std::move(src);" with src destroyed next, as for a temporary or a
\* local at the end of its scope: the move assignment, then ~TriangleMesh
\* on what it left in src.
MoveAssignThenDestroy(i, j) ==
    /\ i # j /\ meshes[i].alive /\ meshes[j].alive
    /\ LET r == moveAssign(meshes[i], meshes[j])
           c == clear(Ctx(j, r.src, vaos, Outdated(bufs, r.src), badDelete))
       IN /\ meshes' = [meshes EXCEPT ![i] = r.dst, ![j] = NoMesh]
          /\ vaos' = c.vaos
          /\ bufs' = c.bufs
          /\ badDelete' = c.bad
          /\ op' = Op("moveAssignThenDestroy", i, j, {})
          /\ drawn' = 0 /\ glLog' = <<>> /\ steps' = steps + 1
          /\ UNCHANGED <<state, aside>>

SetGLFunctionPtr(i) ==
    /\ meshes[i].alive
    /\ \E fptr \in BOOLEAN :
          /\ meshes[i].f # fptr
          /\ Ran([MeshCtx(i) EXCEPT !.m.f = fptr], Op("setGLFunctionPtr", i, 0, {}))

Clear(i) ==
    /\ meshes[i].alive
    /\ Ran(clear(MeshCtx(i)), Op("clear", i, 0, {}))

LoadOBJ(i, files, flags, failSets) ==
    /\ meshes[i].alive
    /\ \E file \in files, createVBOs \in flags :
         \E fails \in Fails(failSets, createVBOs /\ meshes[i].f /\ file # "missing") :
            Ran(loadOBJ(MeshCtx(i), file, createVBOs, fails), Op("loadOBJ", i, 0, fails))

\* the three-argument loadOBJ; a file that cannot be opened leaves a box of
\* length 0, whose scale factor is not a number: not modelled
LoadOBJScaledOf(i, files, mids, scales, failSets) ==
    /\ meshes[i].alive
    /\ \E file \in files \ {"missing"}, BBmid \in mids, scale \in scales :
         \E fails \in Fails(failSets, meshes[i].f) :
            Ran(loadOBJScaled(MeshCtx(i), file, BBmid, scale, fails),
                Op("loadOBJScaled", i, 0, fails))

LoadOBJScaled(i, files, failSets) == LoadOBJScaledOf(i, files, Mids, ScaleFactors, failSets)

TranslateToCenter(i, failSets) ==
    /\ meshes[i].alive
    /\ \E newBBmid \in Mids, createVBOs \in BOOLEAN :
         \E fails \in Fails(failSets, createVBOs /\ meshes[i].f) :
            Ran(translateToCenter(MeshCtx(i), newBBmid, createVBOs, fails),
                Op("translateToCenter", i, 0, fails))

\* a box of length 0 gives a scale factor that is not a number: not modelled
ScaleToLengthBy(i, scales, failSets) ==
    /\ meshes[i].alive
    /\ BBLength(meshes[i]) > 0
    /\ \E scale \in scales, createVBOs \in BOOLEAN :
         \E fails \in Fails(failSets, createVBOs /\ meshes[i].f) :
            Ran(scaleToLength(MeshCtx(i), scale, createVBOs, fails),
                Op("scaleToLength", i, 0, fails))

ScaleToLength(i, failSets) == ScaleToLengthBy(i, ScaleFactors, failSets)

FlipNormals(i) ==
    /\ meshes[i].alive
    /\ \E createVBOs \in BOOLEAN :
          Ran(flipNormals(MeshCtx(i), createVBOs), Op("flipNormals", i, 0, {}))

GenerateSphere(i, failSets) ==
    /\ meshes[i].alive
    /\ \E fptr \in BOOLEAN :
         \E fails \in Fails(failSets, fptr) :
            Ran(generateSphere(MeshCtx(i), fptr, fails), Op("generateSphere", i, 0, fails))

GenerateTerrain(i, sides, iters, failSets) ==
    /\ meshes[i].alive
    /\ \E l \in sides, w \in sides, iterations \in iters :
         \E span \in HeightSpans(l, w, iterations) :
           \E fails \in Fails(failSets, meshes[i].f) :
              Ran(generateTerrain(MeshCtx(i), l, w, span[1], span[2], fails),
                  Op("generateTerrain", i, 0, fails))

(* ------------------------------ render state -------------------------- *)
\* 4x4 matrices, row by row; an entry is in twentieths, as coordinates are,
\* so W(1) is the entry 1.0.
Idx == 1..4
Identity == [i \in Idx |-> [j \in Idx |-> IF i = j THEN W(1) ELSE 0]]
MatMul(A, B) == [i \in Idx |-> [j \in Idx |->
                   (A[i][1] * B[1][j] + A[i][2] * B[2][j] + A[i][3] * B[3][j] + A[i][4] * B[4][j])
                      \div W(1)]]
\* QMatrix4x4::translate(x, y, z) and QMatrix4x4::scale(x, y, z), as the
\* matrix the current one is multiplied by
Translation(t) == [i \in Idx |-> [j \in Idx |->
                     IF i = j THEN W(1) ELSE IF j = 4 THEN t[i] ELSE 0]]
Scaling(k) == [i \in Idx |-> [j \in Idx |->
                 IF i # j THEN 0 ELSE IF i = 4 THEN W(1) ELSE k[i]]]
\* a perspective projection: 90 degrees, aspect 1, near 1, far 3
Perspective == <<<<W(1), 0, 0, 0>>, <<0, W(1), 0, 0>>, <<0, 0, W(-2), W(-3)>>, <<0, 0, W(-1), 0>>>>

\* shader programs: the standard one and two others
StandardProgram == 1
Programs == {1, 2, 3}

\* The RenderState: the current program, the standard program, the stack of
\* model-view matrices (top last) and the projection matrix.  underflow: a
\* pop was asked for while the stack held its base frame only.
RenderState(program, modelView, projection) ==
    [currentProgram |-> program, standardProgram |-> StandardProgram,
     modelViewMatrices |-> <<modelView>>, projection |-> projection, underflow |-> FALSE]

getCurrentProgram(st) == st.currentProgram
setCurrentProgram(st, program) == [st EXCEPT !.currentProgram = program]
switchToStandardProgram(st) == [st EXCEPT !.currentProgram = st.standardProgram]
getCurrentProjectionMatrix(st) == st.projection
getCurrentModelViewMatrix(st) == st.modelViewMatrices[Len(st.modelViewMatrices)]
pushModelViewMatrix(st) ==
    [st EXCEPT !.modelViewMatrices = Append(@, getCurrentModelViewMatrix(st))]
popModelViewMatrix(st) ==
    IF Len(st.modelViewMatrices) = 1 THEN [st EXCEPT !.underflow = TRUE]
    ELSE [st EXCEPT !.modelViewMatrices = SubSeq(@, 1, Len(@) - 1)]
\* getCurrentModelViewMatrix().translate(..) / .scale(..): the top is
\* multiplied from the right
multiplyModelView(st, M) ==
    [st EXCEPT !.modelViewMatrices = [@ EXCEPT ![Len(@)] = MatMul(@, M)]]

(* ---------------------------------- draw ------------------------------ *)
\* shader.h
COLOR_LOCATION == 2

\* draw runs on the mesh and the render state; log collects its GL calls,
\* each with the program that is current when it is issued.
DrawCtx(m, st) == [m |-> m, state |-> st, log |-> <<>>, ret |-> 0]
GL(d, call, arg) ==
    [d EXCEPT !.log = Append(@, [call |-> call, arg |-> arg, program |-> d.state.currentProgram])]

Dot3(a, b) == a[1] * b[1] + a[2] * b[2] + a[3] * b[3]

\* TriangleMesh::isInsideFrustum.  The planes come divided by the length of
\* their normal, which keeps the sign of n.p - d; a normal of length 0 makes
\* both not-a-number, and the comparison with 0 false.
isInsideFrustum(m, planes) ==
    \A k \in DOMAIN planes :
       LET plane == planes[k]
           p == m.bb.mid
       IN ~(Dot3(plane.n, plane.n) # 0 /\ Dot3(p, plane.n) - W(1) * plane.d > 0)

\* the plane row 4 of VP plus (sign = 1) or minus (sign = -1) row r
ClipPlane(VP, r, sign) ==
    [n |-> [a \in Axes |-> VP[4][a] + sign * VP[r][a]], d |-> VP[4][4] + sign * VP[r][4]]

\* TriangleMesh::boundingBoxIsVisible
boundingBoxIsVisible(m, st) ==
    LET VP == MatMul(getCurrentProjectionMatrix(st), getCurrentModelViewMatrix(st))
        planes == <<ClipPlane(VP, 1, 1), ClipPlane(VP, 1, -1), ClipPlane(VP, 2, 1),
                    ClipPlane(VP, 2, -1), ClipPlane(VP, 3, 1), ClipPlane(VP, 3, -1)>>
    IN isInsideFrustum(m, planes)

\* a drawBB that returns without its pop
drawBBLeavesFrame(d) ==
    LET d1 == GL(d, "glBindVertexArray", d.m.VAObb)
        d2 == [d1 EXCEPT !.state = multiplyModelView(multiplyModelView(pushModelViewMatrix(@),
                                       Translation(d.m.bb.mid)), Scaling(d.m.bb.size))]
        d3 == GL(d2, "glUniformMatrix4fv", getCurrentModelViewMatrix(d2.state))
        d4 == GL(d3, "glVertexAttrib3f", COLOR_LOCATION)
    IN GL(d4, "glDrawElements", [mode |-> "GL_LINES", count |-> 24])

\* TriangleMesh::drawBB
drawBB(d) ==
    LET d1 == GL(d, "glBindVertexArray", d.m.VAObb)
        d2 == [d1 EXCEPT !.state = multiplyModelView(multiplyModelView(pushModelViewMatrix(@),
                                       Translation(d.m.bb.mid)), Scaling(d.m.bb.size))]
        d3 == GL(d2, "glUniformMatrix4fv", getCurrentModelViewMatrix(d2.state))
        d4 == GL(d3, "glVertexAttrib3f", COLOR_LOCATION)
        d5 == GL(d4, "glDrawElements", [mode |-> "GL_LINES", count |-> 24])
    IN [d5 EXCEPT !.state = popModelViewMatrix(@)]

\* TriangleMesh::drawNormals
drawNormals(d) ==
    LET d1 == GL(d, "glBindVertexArray", d.m.VAOn)
        d2 == GL(d1, "glUniformMatrix4fv", getCurrentModelViewMatrix(d1.state))
        d3 == GL(d2, "glVertexAttrib3f", COLOR_LOCATION)
    IN GL(d3, "glDrawArrays", [mode |-> "GL_LINES", count |-> 2 * d.m.vertices])

\* drawVBO, case ColoringType::STATIC_COLOR
caseStaticColor(d) ==
    GL(GL(GL(d, "glUniform1ui", [uniform |-> "useTexture", value |-> 0]),
          "glDisableVertexAttribArray", COLOR_LOCATION),
       "glVertexAttrib3fv", COLOR_LOCATION)

\* drawVBO, case ColoringType::COLOR_ARRAY: breaks if there is a color
\* buffer, and falls through to STATIC_COLOR otherwise
caseColorArray(d) ==
    IF d.m.VBOc # 0
    THEN GL(GL(d, "glUniform1ui", [uniform |-> "useTexture", value |-> 0]),
            "glEnableVertexAttribArray", COLOR_LOCATION)
    ELSE caseStaticColor(d)

\* case ColoringType::TEXTURE falling through to STATIC_COLOR directly
caseTextureSkipsColorArray(d) ==
    IF d.m.textureID # 0
    THEN GL(GL(GL(GL(d, "glUniform1ui", [uniform |-> "useTexture", value |-> 1]),
                  "glActiveTexture", 0),
               "glBindTexture", d.m.textureID),
            "glUniform1i", [uniform |-> "texture", value |-> 0])
    ELSE caseStaticColor(d)

\* drawVBO, case ColoringType::TEXTURE: breaks if a texture is set, and falls
\* through to COLOR_ARRAY otherwise
caseTexture(d) ==
    IF d.m.textureID # 0
    THEN GL(GL(GL(GL(d, "glUniform1ui", [uniform |-> "useTexture", value |-> 1]),
                  "glActiveTexture", 0),
               "glBindTexture", d.m.textureID),
            "glUniform1i", [uniform |-> "texture", value |-> 0])
    ELSE caseColorArray(d)

\* drawVBO, case ColoringType::BUMP_MAPPING; the three enable* flags keep
\* their initial value, false
caseBumpMapping(d) ==
    LET d1 == GL(GL(d, "glDisableVertexAttribArray", COLOR_LOCATION),
                 "glVertexAttrib3fv", COLOR_LOCATION)
        d2 == GL(GL(GL(d1, "glUniform1ui", [uniform |-> "useDiffuse", value |-> 0]),
                    "glUniform1ui", [uniform |-> "useNormal", value |-> 0]),
                 "glUniform1ui", [uniform |-> "useDisplacement", value |-> 0])
        d3 == GL(GL(GL(d2, "glUniform1i", [uniform |-> "diffuseTexture", value |-> 0]),
                    "glActiveTexture", 0), "glBindTexture", d.m.textureID)
        d4 == GL(GL(GL(d3, "glUniform1i", [uniform |-> "normalTexture", value |-> 1]),
                    "glActiveTexture", 1), "glBindTexture", d.m.normalMapID)
    IN GL(GL(GL(d4, "glUniform1i", [uniform |-> "displacementTexture", value |-> 3]),
             "glActiveTexture", 3), "glBindTexture", d.m.displacementMapID)

\* TriangleMesh::drawVBO
drawVBO(d) ==
    LET d1 == GL(d, "glBindVertexArray", d.m.VAO)
        d2 == GL(d1, "glUniformMatrix4fv", getCurrentModelViewMatrix(d1.state))
        d3 == GL(d2, "glUniformMatrix3fv", [normalMatrixOf |-> getCurrentModelViewMatrix(d2.state)])
        d4 == CASE d.m.coloringType = "TEXTURE" -> caseTexture(d3)
                [] d.m.coloringType = "COLOR_ARRAY" -> caseColorArray(d3)
                [] d.m.coloringType = "STATIC_COLOR" -> caseStaticColor(d3)
                [] d.m.coloringType = "BUMP_MAPPING" -> caseBumpMapping(d3)
    IN GL(d4, "glDrawElements", [mode |-> "GL_TRIANGLES", count |-> 3 * d.m.triangles])

\* draw without the two early returns
drawUnconditionally(d) ==
    LET d1 == IF d.m.withBB \/ d.m.withNormals
              THEN LET formerProgram == getCurrentProgram(d.state)
                       a == [d EXCEPT !.state = switchToStandardProgram(@)]
                       b == IF d.m.withBB THEN drawBB(a) ELSE a
                       n == IF d.m.withNormals THEN drawNormals(b) ELSE b
                   IN [n EXCEPT !.state = setCurrentProgram(@, formerProgram)]
              ELSE d
    IN [drawVBO(d1) EXCEPT !.ret = d.m.triangles]

\* draw without setting the former program again after the overlays
drawKeepsStandardProgram(d) ==
    IF ~boundingBoxIsVisible(d.m, d.state) THEN [d EXCEPT !.ret = 0]
    ELSE IF d.m.VAO = 0 THEN [d EXCEPT !.ret = 0]
    ELSE
    LET d1 == IF d.m.withBB \/ d.m.withNormals
              THEN LET a == [d EXCEPT !.state = switchToStandardProgram(@)]
                       b == IF d.m.withBB THEN drawBB(a) ELSE a
                   IN IF d.m.withNormals THEN drawNormals(b) ELSE b
              ELSE d
    IN [drawVBO(d1) EXCEPT !.ret = d.m.triangles]

\* TriangleMesh::draw
draw(d) ==
    IF ~boundingBoxIsVisible(d.m, d.state) THEN [d EXCEPT !.ret = 0]
    ELSE IF d.m.VAO = 0 THEN [d EXCEPT !.ret = 0]
    ELSE
    LET d1 == IF d.m.withBB \/ d.m.withNormals
              THEN LET formerProgram == getCurrentProgram(d.state)
                       a == [d EXCEPT !.state = switchToStandardProgram(@)]
                       b == IF d.m.withBB THEN drawBB(a) ELSE a
                       n == IF d.m.withNormals THEN drawNormals(b) ELSE b
                   IN [n EXCEPT !.state = setCurrentProgram(@, formerProgram)]
              ELSE d
    IN [drawVBO(d1) EXCEPT !.ret = d.m.triangles]

(* ------------------------ drawing and its settings -------------------- *)
\* the model-view matrices the view sets up before it draws a mesh
ModelViews == {Identity, Translation(Vec3(W(5), 0, 0))}
Projections == {Identity, Perspective}
\* texture names the caller hands to setTexture
TextureNames == {0, 1}

\* a setter of mesh i has stored a value
Set(i, m, name) == Ran([MeshCtx(i) EXCEPT !.m = m], Op(name, i, 0, {}))

SetColoringMode(i) ==
    /\ meshes[i].alive
    /\ \E type \in ColoringType :
          /\ meshes[i].coloringType # type
          /\ Set(i, [meshes[i] EXCEPT !.coloringType = type], "setColoringMode")

SetTexture(i) ==
    /\ meshes[i].alive
    /\ \E texID \in TextureNames :
          /\ meshes[i].textureID # texID
          /\ Set(i, [meshes[i] EXCEPT !.textureID = texID], "setTexture")

ToggleBB(i) ==
    /\ meshes[i].alive
    /\ \E enable \in BOOLEAN :
          /\ meshes[i].withBB # enable
          /\ Set(i, [meshes[i] EXCEPT !.withBB = enable], "toggleBB")

ToggleNormals(i) ==
    /\ meshes[i].alive
    /\ \E enable \in BOOLEAN :
          /\ meshes[i].withNormals # enable
          /\ Set(i, [meshes[i] EXCEPT !.withNormals = enable], "toggleNormals")

\* The view sets the program, the model-view matrix and the projection.
SetupFrame(programs, modelViews, projections) ==
    /\ \E program \in programs, modelView \in modelViews, projection \in projections :
          /\ state' = RenderState(program, modelView, projection)
          /\ state' # state
    /\ op' = Op("setupFrame", 0, 0, {})
    /\ drawn' = 0 /\ glLog' = <<>> /\ steps' = steps + 1
    /\ UNCHANGED <<meshes, gpu, aside>>

Draw(i) ==
    /\ meshes[i].alive
    /\ LET d == draw(DrawCtx(meshes[i], state))
       IN /\ meshes' = [meshes EXCEPT ![i] = d.m]
          /\ state' = d.state
          /\ drawn' = d.ret
          /\ glLog' = d.log
    /\ op' = Op("draw", i, 0, {})
    /\ steps' = steps + 1
    /\ UNCHANGED <<gpu, aside>>

(* ------------------------------- shaders ------------------------------ *)
\* The shader state of the view before initializeGL.  programs: the names
\* of the live GL programs; announced: the indices emitted through
\* shaderCompiled, in order; fatal: changeShader has called qFatal.
NoShaders ==
    [initialized |-> FALSE, programIDs |-> <<>>, currentProgramID |-> 0, bumpProgramID |-> 0,
     skyboxProgramID |-> 0, programs |-> {}, announced |-> <<>>, fatal |-> FALSE]

\* readShaders / compileShaders: the name of a new program, or 0 (the
\* program deleted again) when a file cannot be read or linking fails
readShaders(sh, ok) == IF ok THEN FreshName(sh.programs) ELSE 0
\* the view after a call of readShaders that returned id
Linked(sh, id) == IF id = 0 THEN sh ELSE [sh EXCEPT !.programs = @ \cup {id}]

\* OpenGLView::initializeGL from "load shaders" on (the textures and meshes
\* it loads before are the business of the mesh operations); ok tells of
\* each of the four programs whether it could be read and linked
initializeGL(sh, ok) ==
    LET lightShaderID == readShaders(sh, ok.light)
        s1 == Linked(sh, lightShaderID)
        s2 == IF lightShaderID # 0 THEN [s1 EXCEPT !.programIDs = Append(@, lightShaderID)] ELSE s1
        shaderID == readShaders(s2, ok.lambert)
        s3 == Linked(s2, shaderID)
        s4 == IF shaderID # 0 THEN [s3 EXCEPT !.programIDs = Append(@, shaderID)] ELSE s3
        s5 == [s4 EXCEPT !.currentProgramID = lightShaderID, !.bumpProgramID = readShaders(s4, ok.bump)]
        s6 == Linked(s5, s5.bumpProgramID)
        s7 == Linked([s6 EXCEPT !.skyboxProgramID = readShaders(s6, ok.skybox)],
                     readShaders(s6, ok.skybox))
    IN [s7 EXCEPT !.initialized = TRUE, !.announced = @ \o <<0, 1>>]

\* OpenGLView::compileShader
compileShader(sh, ok) ==
    LET programHandle == readShaders(sh, ok)
    IN IF programHandle # 0
       THEN [Linked(sh, programHandle) EXCEPT !.programIDs = Append(@, programHandle),
                                              !.announced = Append(@, Len(sh.programIDs))]
       ELSE sh

\* OpenGLView::changeShader: programIDs.at(index) throws std::out_of_range
\* for an index that is not below the size, and the handler calls qFatal
changeShader(sh, index) ==
    IF index < Len(sh.programIDs) THEN [sh EXCEPT !.currentProgramID = sh.programIDs[index + 1]]
    ELSE [sh EXCEPT !.fatal = TRUE]

\* the view has run one of its shader operations
ShaderOp(name, sh) ==
    /\ shaders' = sh
    /\ op' = Op(name, 0, 0, {})
    /\ drawn' = 0 /\ glLog' = <<>> /\ steps' = steps + 1
    /\ UNCHANGED <<meshes, gpu, calc, camera>>

\* state.setStandardProgram(lightShaderID) is called if the light shader
\* was loaded
InitializeGL ==
    /\ ~shaders.initialized
    /\ \E ok \in [light : BOOLEAN, lambert : BOOLEAN, bump : BOOLEAN, skybox : BOOLEAN] :
          /\ ShaderOp("initializeGL", initializeGL(shaders, ok))
          /\ state' = IF ok.light THEN [state EXCEPT !.standardProgram = shaders'.currentProgramID]
                      ELSE state

CompileShader ==
    /\ shaders.initialized /\ ~shaders.fatal
    /\ \E ok \in BOOLEAN : ShaderOp("compileShader", compileShader(shaders, ok)) /\ UNCHANGED state

\* the combo box asks for a shader that was announced
ChangeShader ==
    /\ shaders.initialized /\ ~shaders.fatal
    /\ \E k \in DOMAIN shaders.announced :
          ShaderOp("changeShader", changeShader(shaders, shaders.announced[k])) /\ UNCHANGED state

(* -------------------------------- a frame ----------------------------- *)
\* The meshes a frame draws are meshes of the model: lightSphere and
\* bumpSphere are the ids of sphereMesh and bumpSphereMesh, airplanes and
\* others the ids of airplaneMeshes and of meshes[1..], grid the id of
\* meshes[0], drawn gridSize times; position is where the airplanes are.
Scenes ==
    [lightSphere : {2}, bumpSphere : {2}, airplanes : {<<1>>, <<1, 2>>},
     position : {Vec3(W(1), 0, 0)}, grid : {1}, gridSize : {2}, others : {<<2>>}]

\* a frame in progress: the render state, the GL calls so far, the counts
Frame(st) == [state |-> st, log |-> <<>>, trianglesDrawn |-> 0, culledObjectsCount |-> 0]

\* mesh.drawAndCountTriangles(state): TriangleMesh::draw
drawAndCountTriangles(p, m) ==
    CHOOSE r \in {[q EXCEPT !.state = d.state, !.log = @ \o d.log, !.trianglesDrawn = @ + d.ret] :
                     <<q, d>> \in {<<f, draw(DrawCtx(m, f.state))>> : f \in {p}}} : TRUE

\* "if (!mesh.isBoundingBoxVisible(state)) culledObjectsCount++; else
\* trianglesDrawn += mesh.drawAndCountTriangles(state);"
drawIfVisible(p, m) ==
    CHOOSE r \in {IF ~boundingBoxIsVisible(m, q.state) THEN [q EXCEPT !.culledObjectsCount = @ + 1]
                     ELSE drawAndCountTriangles(q, m) : q \in {p}} : TRUE

\* OpenGLView::drawLight, the light being at lightPos
drawLight(p, ms, scene, lightPos) ==
    LET p1 == [p EXCEPT !.state = multiplyModelView(multiplyModelView(pushModelViewMatrix(@),
                                      Translation(lightPos)), Scaling(Vec3(W(2), W(2), W(2))))]
        p2 == drawAndCountTriangles(p1, ms[scene.lightSphere])
    IN [p2 EXCEPT !.state = popModelViewMatrix(@)]

\* the loop over airplaneMeshes, from the k-th on
RECURSIVE drawAirplanes(_, _, _, _, _)
drawAirplanes(p, ms, position, ids, k) ==
    IF k > Len(ids) THEN p
    ELSE LET p1 == [p EXCEPT !.state = multiplyModelView(pushModelViewMatrix(@), Translation(position))]
             p2 == drawIfVisible(p1, ms[ids[k]])
         IN drawAirplanes([p2 EXCEPT !.state = popModelViewMatrix(@)], ms, position, ids, k + 1)

\* the loop "for (i < gridSize)": translate(1, 0) and draw meshes[0]
RECURSIVE drawGrid(_, _, _)
drawGrid(p, m, n) ==
    IF n = 0 THEN p
    ELSE drawGrid(drawIfVisible([p EXCEPT !.state = multiplyModelView(@, Translation(Vec3(W(1), 0, 0)))],
                                m), m, n - 1)

\* the loop over meshes[1..], from the k-th on
RECURSIVE drawOthers(_, _, _, _)
drawOthers(p, ms, ids, k) ==
    IF k > Len(ids) THEN p ELSE drawOthers(drawIfVisible(p, ms[ids[k]]), ms, ids, k + 1)

\* OpenGLView::paintGL: view is the matrix lookAt leaves, bumpProgramID and
\* currentProgramID the programs of the view; the skybox and the coordinate
\* axes use no mesh and leave the matrix stack alone.
paintGL(st, ms, scene, view, lightPos, bumpProgramID, currentProgramID) ==
    LET s1 == [st EXCEPT !.modelViewMatrices = [@ EXCEPT ![Len(@)] = MatMul(Identity, view)]]
        p1 == drawLight(Frame(switchToStandardProgram(s1)), ms, scene, lightPos)
        p2 == [p1 EXCEPT !.state = multiplyModelView(pushModelViewMatrix(setCurrentProgram(@, bumpProgramID)),
                                                     Translation(Vec3(0, W(5), 0)))]
        p3 == drawIfVisible(p2, ms[scene.bumpSphere])
        p4 == [p3 EXCEPT !.state = setCurrentProgram(popModelViewMatrix(@), currentProgramID)]
        p5 == drawAirplanes(p4, ms, scene.position, scene.airplanes, 1)
        p6 == drawGrid([p5 EXCEPT !.state = pushModelViewMatrix(@)], ms[scene.grid], scene.gridSize)
        p7 == [p6 EXCEPT !.state = popModelViewMatrix(@)]
    IN drawOthers(p7, ms, scene.others, 1)

\* positions of the light
LightPositions == {Vec3(0, W(5), 0)}

PaintGL ==
    /\ \A i \in MeshIds : meshes[i].alive
    /\ \E scene \in Scenes, view \in ModelViews, lightPos \in LightPositions,
          currentProgramID \in Programs \ {3} :
          \E p \in {paintGL(state, meshes, scene, view, lightPos, 3, currentProgramID)} :
             /\ state' = p.state
             /\ drawn' = p.trianglesDrawn
             /\ glLog' = p.log
    /\ op' = Op("paintGL", 0, 0, {})
    /\ steps' = steps + 1
    /\ UNCHANGED <<meshes, gpu, aside>>

(* ------------------------- functions on values ------------------------ *)
\* A function of the program applied to inputs drawn beforehand.
NoCall == [fn |-> "none", args |-> <<>>, done |-> FALSE, out |-> <<>>]
Call(fn, args) == [fn |-> fn, args |-> args, done |-> FALSE, out |-> <<>>]

\* The mesh side of the state while a function is applied to inputs.
Idle ==
    /\ meshes = [i \in MeshIds |-> NoMesh]
    /\ vaos = {}
    /\ bufs = <<>>
    /\ badDelete = FALSE
    /\ op = Op("none", 0, 0, {})
    /\ state = RenderState(StandardProgram, Identity, Identity)
    /\ drawn = 0
    /\ glLog = <<>>
    /\ steps = 0

\* The function of calc is applied: out is its result.
Apply(fn, result) ==
    /\ calc.fn = fn /\ ~calc.done
    /\ calc' = [calc EXCEPT !.done = TRUE, !.out = result]
    /\ UNCHANGED <<meshes, gpu, op, state, drawn, glLog, steps, camera, shaders>>

RECURSIVE ISqrt(_)
\* the integer part of the square root of n
ISqrt(n) == IF n < 4 THEN (IF n = 0 THEN 0 ELSE 1)
            ELSE LET r == 2 * ISqrt(n \div 4)
                 IN IF (r + 1) * (r + 1) <= n THEN r + 1 ELSE r

(* ------------------------------ OBJ parsing --------------------------- *)
\* The number of values of the model's unsigned int: 2^30, the model's
\* integers ending below the 2^32 of the build.
UINT_RANGE == 1073741824
\* the conversion (unsigned int)n of an int n
UInt(n) == n % UINT_RANGE

\* a directive loop that counts a face index below 0 back from the last
\* vertex of the whole file
RECURSIVE ParseOBJFromFileEnd(_, _, _)
ParseOBJFromFileEnd(text, i, acc) ==
    IF i > Len(text) THEN acc
    ELSE LET d == text[i]
             size == Len(SelectSeq(text, LAMBDA t : t.k = "v"))
             indices == [j \in DOMAIN d.idx |->
                           (IF d.idx[j] < 0 THEN size + 1 + d.idx[j] ELSE d.idx[j]) - 1]
         IN ParseOBJFromFileEnd(text, i + 1,
              CASE d.k = "v" -> [acc EXCEPT !.vertices = Append(@, d.p)]
                [] d.k = "vn" -> [acc EXCEPT !.normals = Append(@, d.p)]
                [] d.k = "f" -> IF Len(indices) = 3
                                THEN [acc EXCEPT !.triangles = Append(@, [j \in 1..3 |-> UInt(indices[j])])]
                                ELSE acc
                [] OTHER -> acc)

\* The directive loop of loadOBJ, on the values: the vertices, normals and
\* triangles it pushes, in order.  A face index below 0 counts back from the
\* vertices read so far; indices are stored 0-based, as unsigned int.
RECURSIVE ParseOBJ(_, _, _)
ParseOBJ(text, i, acc) ==
    IF i > Len(text) THEN acc
    ELSE LET d == text[i]
             indices == [j \in DOMAIN d.idx |->
                           (IF d.idx[j] < 0 THEN Len(acc.vertices) + 1 + d.idx[j] ELSE d.idx[j]) - 1]
         IN ParseOBJ(text, i + 1,
              CASE d.k = "v" -> [acc EXCEPT !.vertices = Append(@, d.p)]
                [] d.k = "vn" -> [acc EXCEPT !.normals = Append(@, d.p)]
                [] d.k = "f" -> IF Len(indices) = 3
                                THEN [acc EXCEPT !.triangles = Append(@, [j \in 1..3 |-> UInt(indices[j])])]
                                ELSE acc
                [] OTHER -> acc)

(* --------------------------- normal synthesis ------------------------- *)
\* cross(a, b) of vec3.h, a and b and the result in twentieths
cross(a, b) ==
    Vec3((a[2] * b[3] - a[3] * b[2]) \div 20,
         (a[3] * b[1] - a[1] * b[3]) \div 20,
         (a[1] * b[2] - a[2] * b[1]) \div 20)

Abs(x) == IF x < 0 THEN -x ELSE x
RECURSIVE Gcd(_, _)
Gcd(a, b) == IF b = 0 THEN a ELSE Gcd(b, a % b)

\* Vec3f::normalize: v / |v|.  A unit vector is written as the shortest
\* whole-number vector of its direction, so that two vectors normalize to
\* the same value exactly when one is a positive multiple of the other;
\* the vector 0 has no direction and stays 0.
normalize(v) ==
    LET g == Gcd(Gcd(Abs(v[1]), Abs(v[2])), Abs(v[3]))
    IN IF g = 0 THEN VZero ELSE [a \in Axes |-> v[a] \div g]

\* a triangle loop that adds the triangle normal to the first corner only
RECURSIVE AccumulateAtFirstCorner(_, _, _, _)
AccumulateAtFirstCorner(vertices, triangles, k, acc) ==
    IF k > Len(triangles) \/ acc.undefined THEN acc
    ELSE LET t == triangles[k]
         IN IF \E j \in 1..3 : t[j] >= Len(vertices)
            THEN [acc EXCEPT !.undefined = TRUE]
            ELSE LET normal == cross(VSub(vertices[t[2] + 1], vertices[t[1] + 1]),
                                     VSub(vertices[t[3] + 1], vertices[t[1] + 1]))
                 IN AccumulateAtFirstCorner(vertices, triangles, k + 1,
                      [acc EXCEPT !.sums = [@ EXCEPT ![t[1] + 1] = VAdd(@, normal)]])

\* The triangle loop of calculateNormalsByArea from triangle k on: normal is
\* added to normals[id0], normals[id1] and normals[id2] in turn.  An index
\* that names no vertex makes the loop read and write outside the arrays:
\* undefined is set and the loop is followed no further.
RECURSIVE AccumulateNormals(_, _, _, _)
AccumulateNormals(vertices, triangles, k, acc) ==
    IF k > Len(triangles) \/ acc.undefined THEN acc
    ELSE LET t == triangles[k]
         IN IF \E j \in 1..3 : t[j] >= Len(vertices)
            THEN [acc EXCEPT !.undefined = TRUE]
            ELSE LET normal == cross(VSub(vertices[t[2] + 1], vertices[t[1] + 1]),
                                     VSub(vertices[t[3] + 1], vertices[t[1] + 1]))
                     add(s, id) == [s EXCEPT ![id + 1] = VAdd(@, normal)]
                 IN AccumulateNormals(vertices, triangles, k + 1,
                      [acc EXCEPT !.sums = add(add(add(@, t[1]), t[2]), t[3])])

\* TriangleMesh::calculateNormalsByArea, on the values.  normals.resize
\* keeps the normals that are stored and appends zero vectors.
\* sums: the normals before the last loop normalizes them.
normalsByArea(vertices, triangles, normals) ==
    LET resized == [k \in 1..Len(vertices) |-> IF k <= Len(normals) THEN normals[k] ELSE VZero]
        r == AccumulateNormals(vertices, triangles, 1, [sums |-> resized, undefined |-> FALSE])
    IN [sums |-> r.sums, undefined |-> r.undefined,
        normals |-> [k \in DOMAIN r.sums |-> normalize(r.sums[k])]]

\* What loadOBJ leaves in vertices, triangles and normals.  fileNormals:
\* the normals of the vn lines; synthesized: calculateNormalsByArea ran.
loadOBJValues(text) ==
    LET p == ParseOBJ(text, 1, [vertices |-> <<>>, normals |-> <<>>, triangles |-> <<>>])
        synthesized == Len(p.normals) # Len(p.vertices)
        n == IF synthesized THEN normalsByArea(p.vertices, p.triangles, p.normals)
             ELSE [sums |-> p.normals, undefined |-> FALSE, normals |-> p.normals]
    IN [vertices |-> p.vertices, triangles |-> p.triangles, fileNormals |-> p.normals,
        synthesized |-> synthesized, sums |-> n.sums, normals |-> n.normals,
        undefined |-> n.undefined]

\* the files handed to loadOBJ
LoadFiles == FileNames \cup {"mixed"}
\* files with fewer vn lines than v lines, with vertices after a face, and
\* with a face index that is 0, too large or too far below 0
FaceFiles == {"partial", "early", "zero", "beyond", "before"}

\* the vertices, triangles and normals loadOBJ leaves for the file of calc
ParseFile == Apply("loadOBJ", loadOBJValues(FileText(calc.args.file)))

(* --------------------------- sphere mapping --------------------------- *)
\* std::atan2(x, z) in eighths of a turn, exact where x = 0, z = 0 or
\* |x| = |z| (atan2(0, 0) is 0), the nearest odd eighth elsewhere
Atan2Eighths(x, z) ==
    CASE x = 0 -> IF z >= 0 THEN 0 ELSE 4
      [] x > 0 -> IF z = 0 THEN 2 ELSE IF z > 0 THEN 1 ELSE 3
      [] OTHER -> IF z = 0 THEN -2 ELSE IF z > 0 THEN -1 ELSE -3

\* std::asin(y / r) in eighths of a turn for r = sqrt(rr) > 0, exact where
\* y = 0, |y| = r or 2 y^2 = r^2, the nearest eighth elsewhere
AsinEighths(y, rr) ==
    LET eighths == IF 1000 * y * y > 854 * rr THEN 2 ELSE IF 1000 * y * y > 146 * rr THEN 1 ELSE 0
    IN IF y >= 0 THEN eighths ELSE -eighths

\* The texture coordinate of one vertex, in thousandths: u = atan2 / (2 pi)
\* + 0.5, v = asin(y / |dist|) / pi.  nan: v is not a number; zeroDivide: a
\* division by 0 was evaluated.
TexCoord(vertex, boundingBoxMid) ==
    LET dist == VSub(vertex, boundingBoxMid)
        rr == Dot3(dist, dist)
    IN [u |-> 125 * Atan2Eighths(dist[1], dist[3]) + 500,
        v |-> IF rr = 0 THEN 0 ELSE 250 * AsinEighths(dist[2], rr),
        nan |-> rr = 0,
        zeroDivide |-> rr = 0]

\* TriangleMesh::calculateTexCoordsSphereMapping, on the values
sphereMapping(vertices, boundingBoxMid) ==
    [k \in DOMAIN vertices |-> TexCoord(vertices[k], boundingBoxMid)]

\* vertex positions: the origin and the points two units along each axis
Points == {VZero} \cup {[b \in Axes |-> IF b = a THEN W(sign * 2) ELSE 0] : a \in Axes, sign \in {-1, 1}}
\* the vertex arrays of meshes of one and of two vertices
VertexLists == {<<p>> : p \in Points} \cup {<<p, q>> : p \in Points, q \in Points}
\* boundingBoxMid as loadOBJ and calculateBB compute it for these vertices
MidOf(vertices) ==
    [a \in Axes |->
       LET xs == {vertices[k][a] : k \in DOMAIN vertices}
       IN ((CHOOSE x \in xs : \A y \in xs : x <= y) + (CHOOSE x \in xs : \A y \in xs : x >= y)) \div 2]

CalculateTexCoordsSphereMapping ==
    Apply("calculateTexCoordsSphereMapping",
          sphereMapping(calc.args.vertices, calc.args.boundingBoxMid))

(* ------------------------------ heightmap ----------------------------- *)
\* rand() returns 0..RAND_MAX; the model's RAND_MAX is one full turn, so a
\* value is an angle in degrees and a fraction of RAND_MAX at once.
RandMax == 360
RandValues == {0, 90, 180, 360}
\* sin and cos of a whole number of quarter turns
SinDeg(v) == CASE v % 360 = 0 -> 0 [] v % 360 = 90 -> 1 [] v % 360 = 180 -> 0 [] OTHER -> -1
CosDeg(v) == SinDeg(v + 90)

\* The wave of the cosine (kind 0) and sine (kind 1) displacement:
\* cos or sin of dist / waveSize * pi, taken at the nearest quarter turn.
\* dist and d are in twentieths; waveSize = d / 10.
Wave(kind, dist, d) ==
    LET quarters == (40 * dist + d) \div (2 * d)
    IN IF kind = 0 THEN CosDeg(90 * quarters) ELSE SinDeg(90 * quarters)

\* a step displacement that lifts the cells on the fault line as well
DisplaceOnLine(kind, l, w, x, z, v, r) ==
    LET d == ISqrt(400 * (w * w + l * l))
        c == (r * d) \div RandMax - d \div 2
        dist == SinDeg(v) * W(x) + CosDeg(v) * W(z) - c
    IN IF kind \in {0, 1} THEN (displacement \div 2) * Wave(kind, dist, d)
       ELSE IF dist >= 0 THEN displacement ELSE -displacement

\* what one iteration adds to cell (x, z), in twentieths
Displace(kind, l, w, x, z, v, r) ==
    LET d == ISqrt(400 * (w * w + l * l))
        a == SinDeg(v)
        b == CosDeg(v)
        c == (r * d) \div RandMax - d \div 2
        dist == a * W(x) + b * W(z) - c
    IN IF kind \in {0, 1} THEN (displacement \div 2) * Wave(kind, dist, d)
       ELSE IF dist > 0 THEN displacement ELSE -displacement

\* the iterations from..to of the fault loop, on grid g (rows 1..l stand for
\* x = 0..l-1, cells 1..w for z = 0..w-1); rnd is the stream rand() returns
RECURSIVE FaultLoop(_, _, _, _, _, _, _)
FaultLoop(g, l, w, kind, rnd, from, to) ==
    IF from > to THEN g
    ELSE FaultLoop([x \in DOMAIN g |-> [z \in DOMAIN g[x] |->
                       g[x][z] + Displace(kind, l, w, x - 1, z - 1, rnd[2 * from - 1], rnd[2 * from])]],
                   l, w, kind, rnd, from + 1, to)

\* a fault loop that tests its condition after the pass, so runs at least once
generateHeightmapDoWhile(l, w, iterations, displacementType, rnd) ==
    [error |-> "none", rands |-> 2 * Max2(iterations, 1), cells |-> l * w,
     grid |-> FaultLoop([x \in 1..l |-> [z \in 1..w |-> 0]], l, w, displacementType, rnd,
                        1, Max2(iterations, 1))]

\* TriangleMesh::generateHeightmap.  A negative side makes the vector
\* constructor throw std::length_error; a side of 0 gives an empty grid.
\* error: what is thrown; rands: calls of rand(); cells: doubles allocated.
generateHeightmap(l, w, iterations, displacementType, rnd) ==
    IF l < 0 \/ w < 0
    THEN [error |-> "std::length_error", rands |-> 0, cells |-> 0, grid |-> <<>>]
    ELSE [error |-> "none", rands |-> 2 * iterations, cells |-> l * w,
          grid |-> FaultLoop([x \in 1..l |-> [z \in 1..w |-> 0]], l, w, displacementType, rnd,
                             1, iterations)]

\* sides, iteration counts and displacement kinds handed to generateHeightmap
Sides == -1..MaxSide
Iterations == 0..MaxIterations
DisplacementTypes == 0..3
RandStreams == [1..(2 * MaxIterations) -> RandValues]

GenerateHeightmap ==
    Apply("generateHeightmap",
          generateHeightmap(calc.args.l, calc.args.w, calc.args.iterations,
                            calc.args.displacementType, calc.args.rnd))

(* ------------------------------- terrain ------------------------------ *)
\* the pairs (x, z) the loops "for x < xs, for z < zs" visit from (x, z) on
RECURSIVE ForCells(_, _, _, _, _)
ForCells(x, z, xs, zs, acc) ==
    IF x >= xs THEN acc
    ELSE IF z >= zs THEN ForCells(x + 1, 0, xs, zs, acc)
    ELSE ForCells(x, z + 1, xs, zs, Append(acc, <<x, z>>))

\* TriangleMesh::calculateTerrainColor: the color pushed for a height
calculateTerrainColor(height, displacementType) ==
    IF displacementType > 1
    THEN CASE height < W(-7) -> "deepWater"
           [] height >= W(-7) /\ height < W(-4) -> "shallowWater"
           [] height >= W(-4) /\ height < W(-3) -> "sand"
           [] height >= W(-3) /\ height < 0 -> "lowLand"
           [] height >= 0 /\ height < W(5) -> "grass"
           [] height >= W(5) /\ height < W(8) -> "forest"
           [] height >= W(8) /\ height < W(9) -> "mountain"
           [] height >= W(9) /\ height < W(10) -> "rock"
           [] OTHER -> "snow"
    ELSE CASE height < -110 -> "shallowWater"
           [] height >= -110 /\ height < -90 -> "sand"
           [] height >= -90 /\ height < -70 -> "lowLand"
           [] height >= -70 /\ height < -30 -> "grass"
           [] height >= -30 /\ height < 10 -> "forest"
           [] height >= 10 /\ height < W(2) -> "mountain"
           [] height >= W(2) /\ height < W(3) + 10 -> "rock"
           [] OTHER -> "snow"

\* the two triangles of every cell, with cell numbered column by column
terrainTrianglesByColumn(l, w) ==
    LET cells == ForCells(0, 0, l - 1, w - 1, <<>>)
    IN [k \in 1..(2 * Len(cells)) |->
          LET cell == cells[(k + 1) \div 2][2] * l + cells[(k + 1) \div 2][1]
          IN IF k % 2 = 1 THEN <<cell, cell + 1, cell + w>>
             ELSE <<cell + 1, cell + w, cell + w + 1>>]

\* The triangle loops of generateTerrain: for every cell (x, z) with
\* x < l - 1 and z < w - 1 the triangles (cell, right, below) and (right,
\* below, belowRight) are appended, in this order.
terrainTriangles(l, w) ==
    LET cells == ForCells(0, 0, l - 1, w - 1, <<>>)
    IN [k \in 1..(2 * Len(cells)) |->
          LET cell == cells[(k + 1) \div 2][1] * w + cells[(k + 1) \div 2][2]
              right == cell + 1
              below == cell + w
              belowRight == below + 1
          IN IF k % 2 = 1 THEN <<cell, right, below>> ELSE <<right, below, belowRight>>]

\* TriangleMesh::generateTerrain for l, w >= 1 on a mesh that holds the
\* normals given, on the values: vertices, colors and triangles are cleared
\* and filled, and the normals synthesized.  displacementType is rand() % 4.
terrainOf(l, w, iterations, displacementType, rnd, normals) ==
    LET heightmap == generateHeightmap(l, w, iterations, displacementType, rnd).grid
        cells == ForCells(0, 0, l, w, <<>>)
        vertices == [k \in DOMAIN cells |->
                       Vec3(W(cells[k][1]), heightmap[cells[k][1] + 1][cells[k][2] + 1], W(cells[k][2]))]
        colors == [k \in DOMAIN cells |->
                     calculateTerrainColor(heightmap[cells[k][1] + 1][cells[k][2] + 1], displacementType)]
        triangles == terrainTriangles(l, w)
        n == normalsByArea(vertices, triangles, normals)
    IN [heightmap |-> heightmap, vertices |-> vertices, colors |-> colors, triangles |-> triangles,
        sums |-> n.sums, normals |-> n.normals, undefined |-> n.undefined]

\* grid sides handed to generateTerrain
TerrainSides == 1..(MaxSide + 1)

GenerateTerrainValues ==
    Apply("generateTerrain",
          terrainOf(calc.args.l, calc.args.w, calc.args.iterations, calc.args.displacementType,
                    calc.args.rnd, <<>>))

(* -------------------------------- camera ------------------------------ *)
\* std::fmod: the remainder has the sign of a
Fmod(a, m) == IF a >= 0 THEN a % m ELSE -((-a) % m)
\* hundredths of a degree
Deg(x) == 100 * x
\* OpenGLView::setDefaults: the angles of the direction (0.3, -1.2, -0.8)
DefaultAngleX == 2056
DefaultAngleY == -5455
setDefaults == [angleX |-> DefaultAngleX, angleY |-> DefaultAngleY]

\* a rotation that does not clamp the pitch
cameraRotatesUnclamped(cam, deltaX, deltaY) ==
    [angleX |-> Fmod(cam.angleX + deltaX, Deg(360)), angleY |-> cam.angleY + deltaY]

\* OpenGLView::cameraRotates
cameraRotates(cam, deltaX, deltaY) ==
    [angleX |-> Fmod(cam.angleX + deltaX, Deg(360)),
     angleY |-> Max2(Deg(-70), Min2(cam.angleY + deltaY, Deg(70)))]

\* mouse deltas
DeltasX == {Deg(-90), 0, Deg(45)}
DeltasY == {Deg(-1000), Deg(-10), 0, Deg(10), Deg(1000)}

ViewOp(name) ==
    /\ op' = Op(name, 0, 0, {})
    /\ drawn' = 0 /\ glLog' = <<>> /\ steps' = steps + 1
    /\ UNCHANGED <<meshes, gpu, state, calc, shaders>>

SetDefaults ==
    /\ camera' = setDefaults
    /\ ViewOp("setDefaults")

CameraRotates ==
    /\ \E deltaX \in DeltasX, deltaY \in DeltasY :
          camera' = cameraRotates(camera, deltaX, deltaY)
    /\ ViewOp("cameraRotates")

(* --------------------------- specifications --------------------------- *)
Init ==
    /\ meshes = [i \in MeshIds |-> NoMesh]
    /\ vaos = {}
    /\ bufs = <<>>
    /\ badDelete = FALSE
    /\ op = Op("none", 0, 0, {})
    /\ state = RenderState(StandardProgram, Identity, Identity)
    /\ drawn = 0
    /\ glLog = <<>>
    /\ steps = 0
    /\ calc = NoCall
    /\ camera = setDefaults
    /\ shaders = NoShaders

\* One mesh and every mutating operation, in any order; uploads succeed.
Next ==
    /\ steps < MaxOps
    /\ \/ Construct(1)
       \/ Destroy(1)
       \/ SetGLFunctionPtr(1)
       \/ Clear(1)
       \/ LoadOBJ(1, FileNames, BOOLEAN, {{}})
       \/ LoadOBJScaled(1, FileNames, {{}})
       \/ TranslateToCenter(1, {{}})
       \/ ScaleToLength(1, {{}})
       \/ FlipNormals(1)
       \/ GenerateSphere(1, {{}})
       \/ GenerateTerrain(1, GridSides, {0, 1}, {{}})

Spec == Init /\ [][Next]_vars

\* One mesh and the operations that build its buffers; uploads may fail.
NextBuild ==
    /\ steps < MaxBuildOps
    /\ \/ Construct(1)
       \/ Clear(1)
       \/ LoadOBJ(1, FileNames, BOOLEAN, FailSets)
       \/ GenerateSphere(1, FailSets)
       \/ GenerateTerrain(1, {2}, {0}, FailSets)

SpecBuild == Init /\ [][NextBuild]_vars

\* Two meshes: construction, destruction, moves, clear and builds.
NextMove ==
    /\ steps < MaxMoveOps
    /\ \E i \in MeshIds :
          \/ Construct(i)
          \/ Destroy(i)
          \/ \E j \in MeshIds : MoveConstruct(i, j)
          \/ \E j \in MeshIds : MoveAssign(i, j)
          \/ Clear(i)
          \/ LoadOBJ(i, {"tri"}, {TRUE}, {{}})

SpecMove == Init /\ [][NextMove]_vars

\* One mesh that is built, configured and drawn.
NextDraw ==
    /\ steps < MaxDrawOps
    /\ \/ Construct(1)
       \/ LoadOBJ(1, {"tri"}, {TRUE}, {{}})
       \/ GenerateTerrain(1, {2}, {0}, {{}})
       \/ SetColoringMode(1)
       \/ SetTexture(1)
       \/ ToggleBB(1)
       \/ ToggleNormals(1)
       \/ SetupFrame(Programs, ModelViews, Projections)
       \/ Draw(1)

SpecDraw == Init /\ [][NextDraw]_vars

\* model-view matrices that move the scene by one unit along x and y
CullModelViews == {Identity, Translation(Vec3(W(1), W(1), 0)), Translation(Vec3(W(-1), W(-1), 0))}

\* One mesh that is built and drawn under several views.
NextCull ==
    /\ steps < MaxCullOps
    /\ \/ Construct(1)
       \/ LoadOBJ(1, {"tri"}, {TRUE}, {{}})
       \/ GenerateSphere(1, {{}})
       \/ SetupFrame({StandardProgram}, CullModelViews, Projections)
       \/ Draw(1)

SpecCull == Init /\ [][NextCull]_vars

\* One mesh that loads one file, in any state it can be in before.
InitLoad ==
    /\ Idle
    /\ camera = setDefaults
    /\ shaders = NoShaders
    /\ \E file \in LoadFiles \cup FaceFiles : calc = Call("loadOBJ", [file |-> file])

NextLoad ==
    \/ ParseFile
    \/ /\ steps < MaxLoadOps
       /\ \/ Construct(1)
          \/ SetGLFunctionPtr(1)
          \/ GenerateSphere(1, {{}})
          \/ LoadOBJ(1, {calc.args.file}, BOOLEAN, {{}})
          \/ SetupFrame({StandardProgram}, ModelViews, Projections)
          \/ Draw(1)

SpecLoad == InitLoad /\ [][NextLoad]_vars

\* newLength / length asked of scaleToLength: negative, zero and positive
AnyScaleFactors == {-1, 0, 2}

\* generateTerrain applied to a cleared mesh, for small grids.
InitTerrain ==
    /\ Idle
    /\ camera = setDefaults
    /\ shaders = NoShaders
    /\ \E l \in TerrainSides, w \in TerrainSides, iterations \in Iterations,
          displacementType \in DisplacementTypes, rnd \in RandStreams :
          calc = Call("generateTerrain",
                      [l |-> l, w |-> w, iterations |-> iterations,
                       displacementType |-> displacementType, rnd |-> rnd])

NextTerrain == GenerateTerrainValues

SpecTerrain == InitTerrain /\ [][NextTerrain]_vars

\* the step displacements: every kind but cosine (0) and sine (1)
StepTypes == DisplacementTypes \ {0, 1}
\* up to two iterations, and the four values rand() returns in them
FaultIterations == 0..2
FaultStreams == [1..4 -> RandValues]

\* generateHeightmap applied with a step displacement.
InitFault ==
    /\ Idle
    /\ camera = setDefaults
    /\ shaders = NoShaders
    /\ \E l \in 1..MaxSide, w \in 1..MaxSide, iterations \in FaultIterations,
          displacementType \in StepTypes, rnd \in FaultStreams :
          calc = Call("generateHeightmap",
                      [l |-> l, w |-> w, iterations |-> iterations,
                       displacementType |-> displacementType, rnd |-> rnd])

NextFault == GenerateHeightmap

SpecFault == InitFault /\ [][NextFault]_vars

\* The shaders of the view are loaded, more are compiled, and announced
\* ones are chosen.
NextShader ==
    /\ steps < MaxShaderOps
    /\ \/ InitializeGL
       \/ CompileShader
       \/ ChangeShader

SpecShader == Init /\ [][NextShader]_vars

\* Two meshes, with and without buffers and function pointer, one assigned
\* to the other and destroyed.
NextAssign ==
    /\ steps < MaxAssignOps
    /\ \E i \in MeshIds :
          \/ Construct(i)
          \/ LoadOBJ(i, {"tri", "quad"}, {TRUE}, {{}})
          \/ SetColoringMode(i)
          \/ \E j \in MeshIds : MoveAssignThenDestroy(i, j)

SpecAssign == Init /\ [][NextAssign]_vars

\* Two built meshes with their overlays switched on and off, drawn alone
\* and in frames.
NextPaint ==
    /\ steps < MaxPaintOps
    /\ \/ \E i \in MeshIds : Construct(i)
       \/ \E i \in MeshIds : LoadOBJ(i, {"tri"}, {TRUE}, {{}})
       \/ \E i \in MeshIds : ToggleBB(i)
       \/ \E i \in MeshIds : Draw(i)
       \/ PaintGL

SpecPaint == Init /\ [][NextPaint]_vars

\* One mesh whose bounding box is set, moved and scaled; the arguments of the
\* three-argument loadOBJ are those of calc.
InitBox ==
    /\ Idle
    /\ camera = setDefaults
    /\ shaders = NoShaders
    /\ \E file \in LoadFiles \ {"missing"}, BBmid \in Mids, scale \in ScaleFactors :
          calc = Call("loadOBJScaled", [file |-> file, BBmid |-> BBmid, scale |-> scale])

NextBox ==
    /\ steps < MaxBoxOps
    /\ \/ Construct(1)
       \/ LoadOBJ(1, {"tri"}, {FALSE}, {{}})
       \/ LoadOBJScaledOf(1, {calc.args.file}, {calc.args.BBmid}, {calc.args.scale}, {{}})
       \/ GenerateTerrain(1, GridSides, {0, 1}, {{}})
       \/ GenerateSphere(1, {{}})
       \/ TranslateToCenter(1, {{}})
       \/ ScaleToLengthBy(1, AnyScaleFactors, {{}})

SpecBox == InitBox /\ [][NextBox]_vars

\* calculateTexCoordsSphereMapping applied to the vertices of small meshes.
InitSphereMapping ==
    /\ Idle
    /\ camera = setDefaults
    /\ shaders = NoShaders
    /\ \E vertices \in VertexLists :
          calc = Call("calculateTexCoordsSphereMapping",
                      [vertices |-> vertices, boundingBoxMid |-> MidOf(vertices)])

NextSphereMapping == CalculateTexCoordsSphereMapping

SpecSphereMapping == InitSphereMapping /\ [][NextSphereMapping]_vars

\* generateHeightmap applied to every input within the bounds.
InitHeightmap ==
    /\ Idle
    /\ camera = setDefaults
    /\ shaders = NoShaders
    /\ \E l \in Sides, w \in Sides, iterations \in Iterations,
          displacementType \in DisplacementTypes, rnd \in RandStreams :
          calc = Call("generateHeightmap",
                      [l |-> l, w |-> w, iterations |-> iterations,
                       displacementType |-> displacementType, rnd |-> rnd])

NextHeightmap == GenerateHeightmap

SpecHeightmap == InitHeightmap /\ [][NextHeightmap]_vars

\* The camera of the view, rotated by the mouse and reset.
NextCamera ==
    /\ steps < MaxCameraOps
    /\ \/ SetDefaults
       \/ CameraRotates

SpecCamera == Init /\ [][NextCamera]_vars

(* ------------------------------- properties --------------------------- *)
AllZero(m) == \A s \in BufferSlots : m[s] = 0
Unheld(va, bu, ms) == (va \ HeldVAOs(ms)) \cup (DOMAIN bu \ HeldBuffers(ms))

\* the element count createAllVBOs uploads into slot s for the arrays of m
Count(m, s) == CASE s = "VBOv" -> m.vertices
                 [] s = "VBOn" -> m.normals
                 [] s = "VBOf" -> m.triangles
                 [] s = "VBOc" -> m.colors
                 [] s = "VBOt" -> m.texCoords
                 [] s = "VBOtan" -> m.tangents
                 [] s = "VBOvbb" -> BoxVertices
                 [] s = "VBOfbb" -> BoxLineIndices
                 [] s = "VBOvn" -> 2 * m.vertices

\* whether a build for the arrays of m fills slot s
Requested(m, s) == CASE s = "VBOc" -> m.colors = m.vertices
                     [] s = "VBOt" -> m.texCoords = m.vertices
                     [] s = "VBOtan" -> m.tangents = m.vertices
                     [] s \in {"VBOvn", "VAOn"} -> m.normals = m.vertices
                     [] OTHER -> TRUE

\* slot s of m names a live buffer that stores the current array
Current(m, s) == /\ m[s] \in DOMAIN bufs
                 /\ bufs[m[s]].cur
                 /\ bufs[m[s]].size = Count(m, s) * SizeOf(s)

FullyPresent(m) ==
    /\ \A s \in VAOSlots : IF Requested(m, s) THEN m[s] \in vaos ELSE m[s] = 0
    /\ \A s \in VBOSlots : IF Requested(m, s) THEN m[s] # 0 /\ Current(m, s) ELSE m[s] = 0

MutatingOps == {"clear", "loadOBJ", "loadOBJScaled", "generateTerrain", "generateSphere",
                "translateToCenter", "scaleToLength", "flipNormals"}
RebuildOps == {"loadOBJ", "loadOBJScaled", "generateTerrain", "generateSphere",
               "translateToCenter", "scaleToLength"}

\* C1: after any mutating operation the buffer set of the mesh is fully
\* absent (every slot 0) or fully present and built from the current arrays.
C1_AbsentOrCurrent ==
    op.name \in MutatingOps =>
       AllZero(meshes[op.m]) \/ FullyPresent(meshes[op.m])

\* C2: an operation that rebuilds the buffers of a mesh drops no handle
\* without releasing it: the live GL objects no slot holds are, after the
\* operation, among those before it.
C2_RebuildLeaksNothing ==
    [][op'.name \in RebuildOps => Unheld(vaos', bufs', meshes') \subseteq Unheld(vaos, bufs, meshes)]_vars

\* C3: no non-zero buffer handle is held by two meshes at once, and no handle
\* is released twice: no glDelete* names an object that is not live, and
\* every handle held names a live object.
C3_NoSharingNoDoubleRelease ==
    /\ \A i \in MeshIds, j \in MeshIds, s \in BufferSlots, t \in BufferSlots :
          (i # j /\ (s \in VAOSlots <=> t \in VAOSlots) /\ meshes[i][s] # 0)
             => meshes[i][s] # meshes[j][t]
    /\ ~badDelete
    /\ HeldVAOs(meshes) \subseteq vaos
    /\ HeldBuffers(meshes) \subseteq DOMAIN bufs

\* two meshes own buffers, one of them after a move
C3_Witness ==
    /\ op.name \in {"moveConstruct", "moveAssign"}
    /\ \E i \in MeshIds, j \in MeshIds : i # j /\ meshes[i].VAO # 0 /\ meshes[j].VAO # 0

\* C4: move construction leaves every handle slot of the source 0 and gives
\* every slot of the destination the value the source had, and destroying
\* the source right afterwards releases nothing.
C4_MoveConstruct ==
    [][/\ op'.name = "moveConstruct" =>
             \A s \in HandleSlots : /\ meshes'[op'.s][s] = 0
                                    /\ meshes'[op'.m][s] = meshes[op'.s][s]
       /\ (op.name = "moveConstruct" /\ op'.name = "destroy" /\ op'.m = op.s) =>
             (vaos' = vaos /\ bufs' = bufs /\ badDelete' = badDelete)]_vars

\* a mesh that owned buffers has been move-constructed from
C4_Witness ==
    /\ op.name = "moveConstruct"
    /\ meshes[op.m].VAO # 0 /\ meshes[op.m].VBOv # 0
    /\ meshes[op.s].VAO = 0

C6_ClearResets ==
    [][op'.name = "clear" =>
          LET old == meshes[op'.m]
              m   == meshes'[op'.m]
          IN /\ AllZero(m)
             /\ \A s \in VAOSlots : old[s] \notin vaos'
             /\ \A s \in VBOSlots : old[s] \notin DOMAIN bufs'
             /\ \A a \in ArrayFields : m[a] = 0
             /\ m.bb.min = Vec3(FLT_MAX, FLT_MAX, FLT_MAX)
             /\ m.bb.max = Vec3(-FLT_MAX, -FLT_MAX, -FLT_MAX)]_vars

\* C7: in a build, an upload that lands a wrong size leaves 0 in its slot and
\* no buffer behind, every other requested buffer is stored under a non-zero
\* name with the requested size, and a color, texcoord or tangent buffer is
\* created only when its array is as long as the vertex array.
C7_BuildWithFailures ==
    [][op'.built =>
          LET old == meshes[op'.m]
              m   == meshes'[op'.m]
          IN /\ \A s \in VBOSlots :
                   IF Requested(m, s)
                   THEN IF s \in op'.fails /\ Count(m, s) > 0
                        THEN m[s] = 0
                        ELSE /\ m[s] # 0
                             /\ m[s] \in DOMAIN bufs'
                             /\ bufs'[m[s]].size = Count(m, s) * SizeOf(s)
                   ELSE m[s] \in {0, old[s]}
             /\ DOMAIN bufs' \subseteq HeldBuffers(meshes') \cup DOMAIN bufs]_vars

\* the vertex upload failed, and the buffers after it were still built
C7_Witness ==
    /\ op.built /\ op.fails = {"VBOv"}
    /\ meshes[op.m].vertices > 0
    /\ meshes[op.m].VBOv = 0
    /\ meshes[op.m].VBOn # 0 /\ meshes[op.m].VBOvn # 0 /\ meshes[op.m].VBOfbb # 0

\* the GL calls of a log that draw an overlay, and the one that draws the mesh
IsOverlayDraw(e) == \/ e.call = "glDrawArrays"
                    \/ e.call = "glDrawElements" /\ e.arg.mode = "GL_LINES"
IsMeshDraw(e) == e.call = "glDrawElements" /\ e.arg.mode = "GL_TRIANGLES"

Has(log, call) == \E k \in DOMAIN log : log[k].call = call
HasUniform(log, uniform, value) ==
    \E k \in DOMAIN log : /\ log[k].call = "glUniform1ui"
                          /\ log[k].arg.uniform = uniform
                          /\ log[k].arg.value = value

\* whether a log shows the GL calls of a shading path
Shows(log, path) ==
    CASE path = "texture" -> HasUniform(log, "useTexture", 1) /\ Has(log, "glBindTexture")
      [] path = "color" -> HasUniform(log, "useTexture", 0) /\ Has(log, "glEnableVertexAttribArray")
      [] path = "static" -> HasUniform(log, "useTexture", 0) /\ Has(log, "glDisableVertexAttribArray")
      [] path = "bump" -> HasUniform(log, "useDiffuse", 0)
ShadingPaths == {"texture", "color", "static", "bump"}
PathsTaken(log) == {path \in ShadingPaths : Shows(log, path)}

\* the shading path the coloring mode, the texture and the color buffer call for
PathFor(coloringType, hasTexture, hasColors) ==
    CASE coloringType = "BUMP_MAPPING" -> "bump"
      [] coloringType = "TEXTURE" /\ hasTexture -> "texture"
      [] coloringType \in {"TEXTURE", "COLOR_ARRAY"} /\ hasColors -> "color"
      [] OTHER -> "static"

\* C8: a draw of a mesh that is culled or has no vertex-array object returns
\* 0, issues no GL call and changes neither the render state nor the mesh;
\* every other draw returns the number of triangles.
C8_DrawReturn ==
    [][op'.name = "draw" =>
          LET m == meshes[op'.m]
          IN IF ~boundingBoxIsVisible(m, state) \/ m.VAO = 0
             THEN /\ drawn' = 0 /\ glLog' = <<>>
                  /\ state' = state /\ meshes' = meshes
                  /\ vaos' = vaos /\ bufs' = bufs
             ELSE drawn' = m.triangles]_vars

\* a built mesh with triangles has been culled
C8_Witness ==
    /\ op.name = "draw"
    /\ meshes[op.m].VAO # 0 /\ meshes[op.m].triangles > 0
    /\ ~boundingBoxIsVisible(meshes[op.m], state)
    /\ drawn = 0

\* C9: a draw that reaches drawVBO takes exactly one shading path, the one
\* the coloring mode, the texture handle and the color-buffer handle call for.
C9_ShadingPath ==
    (op.name = "draw" /\ glLog # <<>>) =>
       PathsTaken(glLog) = {PathFor(meshes[op.m].coloringType, meshes[op.m].textureID # 0,
                                    meshes[op.m].VBOc # 0)}

\* mode TEXTURE without a texture, on a mesh with a color buffer
C9_Witness ==
    /\ op.name = "draw" /\ glLog # <<>>
    /\ meshes[op.m].coloringType = "TEXTURE"
    /\ meshes[op.m].textureID = 0
    /\ meshes[op.m].VBOc # 0

\* C10: in a draw of a visible, built mesh with an overlay enabled, every
\* overlay is drawn under the standard program and before the mesh, every GL
\* call after the last overlay is issued under the program that was current
\* on entry, and that program is current again when draw returns.
C10_OverlayProgram ==
    [][(/\ op'.name = "draw"
        /\ boundingBoxIsVisible(meshes[op'.m], state)
        /\ meshes[op'.m].VAO # 0
        /\ meshes[op'.m].withBB \/ meshes[op'.m].withNormals) =>
          LET log == glLog'
              overlays == {k \in DOMAIN log : IsOverlayDraw(log[k])}
          IN /\ Cardinality(overlays) = (IF meshes[op'.m].withBB THEN 1 ELSE 0)
                                        + (IF meshes[op'.m].withNormals THEN 1 ELSE 0)
             /\ \A k \in overlays : log[k].program = state.standardProgram
             /\ \E j \in DOMAIN log :
                   /\ IsMeshDraw(log[j])
                   /\ \A k \in overlays : k < j
             /\ \A j \in DOMAIN log :
                   (\A k \in overlays : k < j) => log[j].program = state.currentProgram
             /\ state'.currentProgram = state.currentProgram]_vars

\* both overlays were drawn in a draw entered under another program than the
\* standard one
C10_Witness ==
    /\ op.name = "draw" /\ glLog # <<>>
    /\ meshes[op.m].withBB /\ meshes[op.m].withNormals
    /\ state.currentProgram # state.standardProgram

\* the clip coordinates VP * (p, 1) of the bounding-box midpoint p of m
ClipCoords(m, st) ==
    LET VP == MatMul(getCurrentProjectionMatrix(st), getCurrentModelViewMatrix(st))
        p == m.bb.mid
    IN [i \in Idx |-> VP[i][1] * p[1] + VP[i][2] * p[2] + VP[i][3] * p[3] + VP[i][4] * W(1)]

\* -w <= x, y, z <= w
InsideClipVolume(c) == \A r \in 1..3 : -c[4] <= c[r] /\ c[r] <= c[4]

\* C11: a built mesh is drawn (boundingBoxIsVisible returned true) iff the
\* clip coordinates of its bounding-box midpoint satisfy -w <= x, y, z <= w.
C11_VisibleIffInClipVolume ==
    [][(op'.name = "draw" /\ meshes[op'.m].VAO # 0) =>
          (glLog' # <<>> <=> InsideClipVolume(ClipCoords(meshes[op'.m], state)))]_vars

\* C12: under the perspective projection and an identity model-view matrix a
\* mesh whose bounding-box midpoint is the view-space origin is visible.
C12_OriginVisible ==
    \A i \in MeshIds :
       (/\ meshes[i].alive /\ meshes[i].vertices > 0
        /\ meshes[i].bb.mid = VZero
        /\ getCurrentProjectionMatrix(state) = Perspective
        /\ getCurrentModelViewMatrix(state) = Identity)
          => boundingBoxIsVisible(meshes[i], state)

\* the heightmap call of calc has returned
HeightmapDone == calc.fn = "generateHeightmap" /\ calc.done

\* C13: without iterations generateHeightmap returns, for sides of 1 or
\* more and every displacement kind, l rows of w cells that are all 0, and
\* calls rand() not once.
C13_ZeroIterations ==
    (HeightmapDone /\ calc.args.l >= 1 /\ calc.args.w >= 1 /\ calc.args.iterations = 0) =>
       /\ calc.out.error = "none"
       /\ DOMAIN calc.out.grid = 1..calc.args.l
       /\ \A x \in DOMAIN calc.out.grid :
             /\ DOMAIN calc.out.grid[x] = 1..calc.args.w
             /\ \A z \in DOMAIN calc.out.grid[x] : calc.out.grid[x][z] = 0
       /\ calc.out.rands = 0

\* a 2 x 2 grid of the step displacement came back without iterations
C13_Witness ==
    /\ HeightmapDone /\ calc.args.iterations = 0
    /\ calc.args.l = 2 /\ calc.args.w = 2 /\ calc.args.displacementType = 3
    /\ calc.out.grid = <<<<0, 0>>, <<0, 0>>>>

\* C14: a heightmap with a side below 1 fails with an InvalidDimension
\* error, with nothing allocated and no cell touched.
C14_InvalidDimension ==
    (HeightmapDone /\ (calc.args.l < 1 \/ calc.args.w < 1)) =>
       /\ calc.out.error = "InvalidDimension"
       /\ calc.out.cells = 0
       /\ calc.out.grid = <<>>

\* the lines of a file that are a directive of kind k
Directives(text, k) == {i \in DOMAIN text : text[i].k = k}
\* the lines of a file that are a face of exactly 3 indices, in file order
TriangleLines(text) ==
    SelectSeq([i \in DOMAIN text |-> i], LAMBDA i : text[i].k = "f" /\ Len(text[i].idx) = 3)
\* the 0-based index a face index stands for on line i
StoredIndex(text, i, n) ==
    (IF n < 0 THEN Cardinality({j \in Directives(text, "v") : j < i}) + 1 + n ELSE n) - 1
\* the file loadOBJ was last called on, if it could be opened
Loaded(file) == op.name = "loadOBJ" /\ calc.args.file = file /\ file # "missing"

\* C15: loadOBJ of a file that opens gives as many vertices as the file has
\* v lines and as many triangles as it has f lines of exactly 3 indices, the
\* vertices and triangles being those of these lines in file order; other
\* f lines are dropped and the lines after them are still read.
C15_LoadCounts ==
    \A file \in LoadFiles :
       LET text == FileText(file)
           lines == TriangleLines(text)
       IN /\ Loaded(file) =>
                /\ meshes[op.m].vertices = Cardinality(Directives(text, "v"))
                /\ meshes[op.m].triangles = Len(lines)
          /\ (calc.fn = "loadOBJ" /\ calc.done /\ calc.args.file = file) =>
                /\ calc.out.vertices = [k \in DOMAIN calc.out.vertices |->
                                          SelectSeq(text, LAMBDA d : d.k = "v")[k].p]
                /\ Len(calc.out.vertices) = Cardinality(Directives(text, "v"))
                /\ calc.out.triangles =
                      [k \in DOMAIN lines |->
                         [j \in 1..3 |-> StoredIndex(text, lines[k], text[lines[k]].idx[j])]]

\* 4 vertices, 2 triangular faces and a face of 5 indices were loaded
C15_Witness ==
    /\ Loaded("quad") /\ calc.done
    /\ meshes[op.m].vertices = 4 /\ meshes[op.m].triangles = 2
    /\ calc.out.triangles = <<<<0, 1, 2>>, <<0, 2, 3>>>>

\* C16: loadOBJ of a file that cannot be opened leaves, whatever the mesh
\* was before, no vertices, triangles, normals, colors or texCoords and every
\* buffer handle 0, and a draw right after it returns 0.
C16_MissingFile ==
    [][/\ (op'.name = "loadOBJ" /\ calc.args.file = "missing") =>
             /\ \A a \in ArrayFields \ {"tangents"} : meshes'[op'.m][a] = 0
             /\ AllZero(meshes'[op'.m])
       /\ (op.name = "loadOBJ" /\ calc.args.file = "missing" /\ op'.name = "draw") =>
             drawn' = 0]_vars

\* C17: the bounding box of a populated mesh has, on every axis,
\* mid = (min + max) / 2, size = max - min and min <= mid <= max.
C17_BoxConsistent ==
    \A i \in MeshIds :
       (meshes[i].alive /\ meshes[i].vertices > 0) =>
          LET bb == meshes[i].bb
          IN \A a \in Axes : /\ 2 * bb.mid[a] = bb.min[a] + bb.max[a]
                             /\ bb.size[a] = bb.max[a] - bb.min[a]
                             /\ bb.min[a] <= bb.mid[a] /\ bb.mid[a] <= bb.max[a]

\* the largest side of the box of the vertices of a file
FileLength(file) ==
    LET r == ReadOBJ(FileText(file), 1,
                     [nv |-> 0, nvn |-> 0, nf |-> 0, min |-> SentinelBB.min, max |-> SentinelBB.max])
    IN Max2(Max2(r.max[1] - r.min[1], r.max[2] - r.min[2]), r.max[3] - r.min[3])

\* C19: after loadOBJ(filename, BBmid, BBlength) on a file of positive extent
\* the midpoint of the box is BBmid and its largest side is BBlength.
C19_MidAndLength ==
    [][(op'.name = "loadOBJScaled" /\ FileLength(calc.args.file) > 0) =>
          /\ meshes'[op'.m].bb.mid = calc.args.BBmid
          /\ BBLength(meshes'[op'.m]) = calc.args.scale * FileLength(calc.args.file)]_vars

\* C18: the pitch angleY stays within -70..70 degrees, and a rotation whose
\* pitch delta would take it above 70 leaves it at exactly 70, also when
\* repeated.
C18_PitchClamped ==
    /\ [](Deg(-70) <= camera.angleY /\ camera.angleY <= Deg(70))
    /\ [][\A deltaX \in DeltasX, deltaY \in DeltasY :
             (camera.angleY + deltaY > Deg(70)
              /\ camera' = cameraRotates(camera, deltaX, deltaY)
              /\ op'.name = "cameraRotates" /\ steps' = steps + 1)
                => camera'.angleY = Deg(70)]_vars

\* the pitch is at 70 degrees after two rotations in a row
C18_Witness ==
    /\ op.name = "cameraRotates" /\ steps >= 2
    /\ camera.angleY = Deg(70)

\* C20: a vertex at the bounding-box midpoint gets u = v = 0.5, and no
\* division by zero or asin of an undefined value is evaluated for it.
C20_MidpointVertex ==
    (calc.fn = "calculateTexCoordsSphereMapping" /\ calc.done) =>
       \A k \in DOMAIN calc.args.vertices :
          calc.args.vertices[k] = calc.args.boundingBoxMid =>
             /\ calc.out[k].u = 500 /\ calc.out[k].v = 500
             /\ ~calc.out[k].nan /\ ~calc.out[k].zeroDivide

\* the call of loadOBJ on the values of calc's file has returned
LoadDone == calc.fn = "loadOBJ" /\ calc.done
\* the sum of a sequence of vectors
RECURSIVE VSum(_)
VSum(vs) == IF vs = <<>> THEN VZero ELSE [a \in Axes |-> Head(vs)[a] + VSum(Tail(vs))[a]]
\* cross(v1 - v0, v2 - v0) of triangle t
FaceNormal(vertices, t) ==
    cross(VSub(vertices[t[2] + 1], vertices[t[1] + 1]), VSub(vertices[t[3] + 1], vertices[t[1] + 1]))
\* the triangles with vertex id as a corner, in order
TrianglesAt(triangles, id) == SelectSeq(triangles, LAMBDA t : \E j \in 1..3 : t[j] = id)

\* C21: for a file without vn lines whose faces name vertices of the file,
\* the normal of every vertex before normalization is the sum of
\* cross(v1 - v0, v2 - v0) over the triangles with that vertex as a corner,
\* and with 3 vertices and 1 triangle the three normals are one and the
\* same: the normalized cross product of the triangle.
C21_AreaNormals ==
    (LoadDone /\ calc.out.fileNormals = <<>> /\ calc.out.vertices # <<>> /\ ~calc.out.undefined) =>
       LET vertices == calc.out.vertices
           triangles == calc.out.triangles
       IN /\ calc.out.synthesized
          /\ DOMAIN calc.out.normals = DOMAIN vertices
          /\ \A k \in DOMAIN vertices :
                LET at == TrianglesAt(triangles, k - 1)
                IN /\ calc.out.sums[k] = VSum([i \in DOMAIN at |-> FaceNormal(vertices, at[i])])
                   /\ calc.out.normals[k] = normalize(calc.out.sums[k])
          /\ (Len(vertices) = 3 /\ Len(triangles) = 1) =>
                \A k \in 1..3 : calc.out.normals[k] = normalize(FaceNormal(vertices, triangles[1]))

\* the one triangle of file tri gave its three vertices the normal (0, 0, 1)
C21_Witness ==
    /\ LoadDone /\ calc.args.file = "tri"
    /\ Len(calc.out.vertices) = 3 /\ Len(calc.out.triangles) = 1
    /\ calc.out.synthesized
    /\ calc.out.normals = <<Vec3(0, 0, 1), Vec3(0, 0, 1), Vec3(0, 0, 1)>>

\* the number of v lines of a file before line i
VerticesBefore(text, i) == Cardinality({j \in Directives(text, "v") : j < i})

\* C24: in every triangle loadOBJ stores, a face index i above 0 is stored
\* as i - 1 and a face index i below 0 as n + i converted to unsigned int,
\* which is n + i itself from -1 (the last vertex read) to -n (the first),
\* n being the number of vertices read before that face.
C24_FaceIndex ==
    \A file \in LoadFiles \cup FaceFiles :
       (LoadDone /\ calc.args.file = file) =>
          LET text == FileText(file)
              lines == TriangleLines(text)
          IN /\ Len(calc.out.triangles) = Len(lines)
             /\ \A k \in DOMAIN lines : \A j \in 1..3 :
                   LET i == text[lines[k]].idx[j]
                       n == VerticesBefore(text, lines[k])
                       stored == calc.out.triangles[k][j]
                   IN /\ i > 0 => stored = i - 1
                      /\ i < 0 => stored = UInt(n + i)
                      /\ (i < 0 /\ -n <= i) => stored = n + i

\* file early: the face -1 -2 -3 read after 3 of the 5 vertices names the
\* vertices 2, 1, 0, and the face 5 1 -4 read after all of them 4, 0, 1
C24_Witness ==
    /\ LoadDone /\ calc.args.file = "early"
    /\ Len(calc.out.vertices) = 5
    /\ calc.out.triangles[1] = <<2, 1, 0>>
    /\ calc.out.triangles[3] = <<4, 0, 1>>

\* C25: the normals calculateNormalsByArea leaves are those summed up from
\* zero over the current vertices and triangles, whatever normals were
\* stored when it was called.
C25_NormalsFromZero ==
    (LoadDone /\ calc.out.synthesized /\ ~calc.out.undefined) =>
       \A k \in DOMAIN calc.out.vertices :
          LET at == TrianglesAt(calc.out.triangles, k - 1)
              sum == VSum([i \in DOMAIN at |-> FaceNormal(calc.out.vertices, at[i])])
          IN /\ calc.out.sums[k] = sum
             /\ calc.out.normals[k] = normalize(sum)

\* C28: after loadOBJ of a file that opens every index of every triangle is
\* below the number of vertices, and normal synthesis reads and writes
\* inside the arrays only.
C28_IndicesInRange ==
    LoadDone =>
       /\ \A k \in DOMAIN calc.out.triangles : \A j \in 1..3 :
             calc.out.triangles[k][j] < Len(calc.out.vertices)
       /\ ~calc.out.undefined

\* the call of generateTerrain on the values of calc has returned
TerrainDone == calc.fn = "generateTerrain" /\ calc.done

\* C22: generateTerrain(l, w, iterations) with l, w >= 1 on a cleared mesh
\* gives l * w vertices, that of cell (x, z) at index x * w + z, the
\* 2 (l - 1)(w - 1) triangles (c, c + 1, c + w) and (c + 1, c + w, c + w + 1)
\* for c = x * w + z, x < l - 1, z < w - 1, each once, one color and one
\* normal per vertex, and no triangle index of l * w or more.
C22_TerrainGrid ==
    TerrainDone =>
       LET l == calc.args.l
           w == calc.args.w
           out == calc.out
       IN /\ Len(out.vertices) = l * w
          /\ \A x \in 0..(l - 1), z \in 0..(w - 1) :
                out.vertices[x * w + z + 1] = Vec3(W(x), out.heightmap[x + 1][z + 1], W(z))
          /\ Len(out.triangles) = 2 * (l - 1) * (w - 1)
          /\ {out.triangles[k] : k \in DOMAIN out.triangles} =
                UNION {{<<x * w + z, x * w + z + 1, x * w + z + w>>,
                        <<x * w + z + 1, x * w + z + w, x * w + z + w + 1>>} :
                       x \in 0..(l - 2), z \in 0..(w - 2)}
          /\ \A j, k \in DOMAIN out.triangles : out.triangles[j] = out.triangles[k] => j = k
          /\ Len(out.colors) = l * w
          /\ Len(out.normals) = l * w
          /\ \A k \in DOMAIN out.triangles : \A j \in 1..3 : out.triangles[k][j] < l * w
          /\ ~out.undefined

\* a terrain of 2 x 3 cells came back with its 6 vertices and 4 triangles
C22_Witness ==
    /\ TerrainDone /\ calc.args.l = 2 /\ calc.args.w = 3 /\ calc.args.iterations = 1
    /\ Len(calc.out.vertices) = 6
    /\ calc.out.triangles = <<<<0, 1, 3>>, <<1, 3, 4>>, <<1, 2, 4>>, <<2, 4, 5>>>>

\* dist = a x + b z - c of cell (x, z) in iteration i of the call of calc
FaultDist(x, z, i) ==
    LET d == ISqrt(400 * (calc.args.w * calc.args.w + calc.args.l * calc.args.l))
        v == calc.args.rnd[2 * i - 1]
        r == calc.args.rnd[2 * i]
    IN SinDeg(v) * W(x) + CosDeg(v) * W(z) - ((r * d) \div RandMax - d \div 2)
\* the heightmap of the call of calc after its first k iterations
HeightmapAfter(k) ==
    generateHeightmap(calc.args.l, calc.args.w, k, calc.args.displacementType, calc.args.rnd).grid

\* C23: with a displacement kind other than 0 and 1, iteration i adds the
\* step to every cell whose dist is above 0 and takes it from every other
\* cell, those of dist 0 included; after k iterations every cell is m steps
\* high for a whole m with |m| <= k and k - m even.
C23_StepFault ==
    (HeightmapDone /\ calc.args.displacementType \notin {0, 1} /\ calc.args.l >= 1 /\ calc.args.w >= 1) =>
       LET k == calc.args.iterations
       IN /\ calc.out.grid = HeightmapAfter(k)
          /\ \A i \in 1..k : \A x \in 1..calc.args.l, z \in 1..calc.args.w :
                HeightmapAfter(i)[x][z] - HeightmapAfter(i - 1)[x][z] =
                   IF FaultDist(x - 1, z - 1, i) > 0 THEN displacement ELSE -displacement
          /\ \A x \in 1..calc.args.l, z \in 1..calc.args.w :
                \E m \in (-k)..k : /\ calc.out.grid[x][z] = displacement * m
                                    /\ (k - m) % 2 = 0

\* two iterations whose fault line runs through the cells of z = 0: these
\* cells went down twice and the others up twice
C23_Witness ==
    /\ HeightmapDone /\ calc.args.displacementType = 2 /\ calc.args.iterations = 2
    /\ calc.args.l = 2 /\ calc.args.w = 2
    /\ FaultDist(0, 0, 1) = 0 /\ FaultDist(1, 0, 2) = 0
    /\ calc.out.grid = <<<<-2 * displacement, 2 * displacement>>, <<-2 * displacement, 2 * displacement>>>>

\* C26: whatever populating operations ran, with or without clear between
\* them, each of colors, texCoords, tangents and normals of a mesh is
\* empty or has as many entries as vertices.
C26_ArraysMatchVertices ==
    \A i \in MeshIds :
       meshes[i].alive =>
          \A a \in {"colors", "texCoords", "tangents", "normals"} :
             meshes[i][a] = 0 \/ meshes[i][a] = meshes[i].vertices

\* the depth of the model-view stack
Depth(st) == Len(st.modelViewMatrices)

\* C27: a frame and a draw of one mesh leave the model-view stack as deep
\* as they found it, and none of their pops was asked of a stack that held
\* the base frame only.
C27_PushPopBalanced ==
    /\ [](~state.underflow /\ Depth(state) >= 1)
    /\ [][op'.name \in {"paintGL", "draw"} => Depth(state') = Depth(state)]_vars

\* a frame has drawn a mesh with its bounding box, between the push and the
\* pop of drawBB
C27_Witness ==
    /\ op.name = "paintGL"
    /\ \E k \in DOMAIN glLog : IsOverlayDraw(glLog[k])
    /\ Depth(state) = 1

\* C29: after "dst = std::move(src)" and the destruction of src, every
\* buffer and vertex array dst held before is deleted, none twice, and dst
\* holds the handles src held before, whatever the function pointers of
\* the two meshes.
C29_AssignReleasesTarget ==
    [][op'.name = "moveAssignThenDestroy" =>
          /\ \A s \in VBOSlots : meshes[op'.m][s] # 0 => meshes[op'.m][s] \notin DOMAIN bufs'
          /\ \A s \in VAOSlots : meshes[op'.m][s] # 0 => meshes[op'.m][s] \notin vaos'
          /\ badDelete' = badDelete
          /\ \A s \in HandleSlots : meshes'[op'.m][s] = meshes[op'.s][s]]_vars

\* C30: every index the view has announced through shaderCompiled is below
\* the size of programIDs, programIDs holds no 0, and changeShader of an
\* announced index has not ended in qFatal, whichever compilations failed.
C30_AnnouncedIndexValid ==
    /\ \A k \in DOMAIN shaders.announced : shaders.announced[k] < Len(shaders.programIDs)
    /\ \A k \in DOMAIN shaders.programIDs : shaders.programIDs[k] # 0
    /\ ~shaders.fatal

====
